---- MODULE Spec2Model ----
(***************************************************************************)
(* goobtool: the `serve` and `db create` commands of cmd/app/main.go, the  *)
(* datastore probe of internal/store and the SQLite store.                 *)
(*                                                                         *)
(* One command runs at a time on a persistent datastore location.  `serve` *)
(* is a main path (probe, open, state check, mode selection, admin host    *)
(* validation, admin bind, post-bind check, launch, select, shutdown) plus *)
(* the goroutines it launches (public task, admin task, exit-after timer,  *)
(* the delayed signal of /admin/shutdown and the delayed exit of           *)
(* /admin/restart).  Time is counted in ticks; a step of the main path     *)
(* takes no time, so a tick passes only while the main path is blocked.    *)
(***************************************************************************)
EXTENDS Integers, Sequences, FiniteSets, TLC

\* ------------------------------------------------------------------ bounds
MaxGrace == 1
MaxExitAfter == 1
MaxInflight == 1
MaxHdrLen == 3
MaxTplLen == 3
MaxArgs == 2

\* --------------------------------------------------------------- constants
schemaVersion == "0.1"
Versions == {"0.1", "0.0"}

StateMissing == "Missing"
StateUninitialized == "Uninitialized"
StateVersionMismatch == "VersionMismatch"
StateReady == "Ready"

Channels == {"public", "admin"}

\* Admin host texts as the flag can carry them: a dotted quad of decimal
\* fields, eight IPv6 groups, or a host name.
Host127 == <<"v4", 127, 0, 0, 1>>
HostV6Loop == <<"v6", 0, 0, 0, 0, 0, 0, 0, 1>>
HostAny == <<"v4", 0, 0, 0, 0>>
HostV6Any == <<"v6", 0, 0, 0, 0, 0, 0, 0, 0>>
HostName == <<"name", "localhost">>
HostBadQuad == <<"v4", 127, 0, 0, 256>>
Hosts == {Host127, HostV6Loop, HostAny, HostV6Any, HostName, HostBadQuad}

NoIP == <<>>

\* net.ParseIP: a dotted quad whose fields are all 0..255 gives the four
\* bytes, eight groups of 0..65535 give the IPv6 address, anything else nil.
ParseIP(h) ==
  IF h[1] = "v4" /\ Len(h) = 5 /\ \A i \in 2..5 : h[i] \in 0..255
    THEN <<"ip4">> \o SubSeq(h, 2, 5)
  ELSE IF h[1] = "v6" /\ Len(h) = 9 /\ \A i \in 2..9 : h[i] \in 0..65535
    THEN <<"ip6">> \o SubSeq(h, 2, 9)
  ELSE NoIP

\* net.IP.IsLoopback: an IPv4 address is loopback when its first byte is 127,
\* an IPv6 address when it equals ::1.
IsLoopback(ip) ==
  IF ip = NoIP THEN FALSE
  ELSE IF ip[1] = "ip4" THEN ip[2] = 127
  ELSE ip = <<"ip6", 0, 0, 0, 0, 0, 0, 0, 1>>

\* ------------------------------------------------------------------- state
VARIABLES
  file,          \* node at <store>/goobtool.db: "absent", "regular", "dir"
  db,            \* content of the datastore file: [hasTable, rows]
  cmd,           \* running command: "none", "serve", "create"
  pc,            \* position of the main path
  exitCode,      \* -1 while running, else the process exit status
  exitAt,        \* the exit site taken
  guidance,      \* the "Run: app db create" guidance was printed
  adminHost,     \* --admin-host
  exitAfter,     \* --exit-after, in ticks (0 = unset)
  shutdownTO,    \* --shutdown-timeout, in ticks
  handle,        \* st.db: "none", "open", "closed"
  state,         \* result of CheckState, "none" before
  mode,          \* "none", "normal", "installation"
  binds,         \* channels on which a bind was attempted in this run
  listener,      \* per channel: "none", "open", "closed"
  adminAddr,     \* the host net.Listen was asked to bind the admin socket on
  boundLoopback, \* the admin socket's bound local address is loopback
  verified,      \* the post-bind loopback check passed
  task,          \* per channel: "none", "ready", "serving", "blocked", "done"
  srvShut,       \* servers on which Shutdown was called
  errCh,         \* buffered error channel (capacity 2)
  ctxDone,       \* the signal context is cancelled
  timer,         \* exit-after timer: -1 not running, else ticks left
  graceLeft,     \* shutdownCtx: -1 not created, else ticks left
  seqElapsed,    \* ticks since the shutdown sequence started
  conns,         \* per channel: the requests being served, with their answers
  pending,       \* delayed goroutines spawned by admin handlers
  greq,          \* guard check: the request
  gresp,         \* guard check: the answer
  amode,         \* admin mux check: the serving mode whose routes are registered
  areq,          \* admin mux check: the request
  aresp,         \* admin mux check: the answer
  expected,      \* store check: the store's expectedSchema
  sres,          \* store check: the last call on the store and what it returned
  released,      \* store check: times the store's connection was released by Close
  fs,            \* probe check: the node at <location>/goobtool.db, per location
  ploc,          \* probe check: the location given to CheckExists
  pres,          \* probe check: what os.Stat found and what CheckExists returned
  lcall,         \* logger check: the logger, the level, the template and the arguments
  lout,          \* logger check: the lines written
  racers         \* concurrent db create: per invocation, its position, handle and exit

storeVars == <<file, db>>
procVars == <<cmd, pc, exitCode, exitAt, guidance>>
flagVars == <<adminHost, exitAfter, shutdownTO>>
bootVars == <<handle, state, mode>>
netVars == <<binds, listener, adminAddr, boundLoopback, verified, task, srvShut>>
sigVars == <<errCh, ctxDone, timer, graceLeft, seqElapsed>>
reqVars == <<conns, pending>>
guardVars == <<greq, gresp>>
muxVars == <<amode, areq, aresp>>
objVars == <<expected, sres, released>>
probeVars == <<fs, ploc, pres>>
logVars == <<lcall, lout>>
raceVars == <<racers>>
pureVars == <<guardVars, muxVars, objVars, probeVars, logVars, raceVars>>
vars == <<storeVars, procVars, flagVars, bootVars, netVars, sigVars, reqVars, pureVars>>

EmptyDB == [hasTable |-> FALSE, rows |-> <<>>]
NoReq == [method |-> "", accept |-> <<>>, ctype |-> <<>>]
NoResp == [status |-> 0, error |-> "", next |-> FALSE]
NoAReq == [method |-> "", path |-> "", accept |-> <<>>, ctype |-> <<>>, body |-> "none"]
NoAResp == [path |-> "", status |-> 0, error |-> "", message |-> FALSE, body |-> "",
            mode |-> "", handler |-> ""]

\* Datastores a run can find on disk: none, a directory in the file's place,
\* or a file without the version table, with an empty one, or with one row.
NoCall == [op |-> "", arg |-> "", before |-> "", err |-> FALSE, notOpened |-> FALSE,
           state |-> "", version |-> "", applied |-> <<>>, connClosed |-> FALSE]

\* No store object is under check.
NoStore == expected = "" /\ sres = NoCall /\ released = 0

\* Store locations of the probe check, and what can sit at the datastore
\* path of one: nothing, a regular file, a directory, or another kind of node
\* (device, socket, named pipe).
Locations == {".", "data", "tmp"}
Nodes == {"absent", "regular", "dir", "special"}
NoProbe == [stat |-> "", exists |-> FALSE, err |-> FALSE]

\* No probe is under check.
NoProbeCall == fs = <<>> /\ ploc = "" /\ pres = NoProbe

\* A nil Logger.
NilLogger == [out |-> "", prefix |-> "", flags |-> ""]
NoLogCall == [logger |-> NilLogger, level |-> "", msg |-> <<>>, args |-> <<>>]

\* No logger call is under check.
NoLog == lcall = NoLogCall /\ lout = <<>>

\* No concurrent invocations are under check.
NoRace == racers = <<>>

\* The datastore that InitSchema of this binary leaves.
CreatedDB == [hasTable |-> TRUE, rows |-> <<schemaVersion>>]

InitStores ==
  {<<"absent", EmptyDB>>, <<"dir", EmptyDB>>, <<"regular", EmptyDB>>,
   <<"regular", [hasTable |-> TRUE, rows |-> <<>>]>>}
  \cup {<<"regular", [hasTable |-> TRUE, rows |-> <<v>>]>> : v \in Versions}

Idle(s) ==
  /\ cmd = "none" /\ pc = "idle" /\ exitCode = -1 /\ exitAt = "none"
  /\ guidance = FALSE
  /\ adminHost = Host127 /\ exitAfter = 0 /\ shutdownTO = 0
  /\ handle = "none" /\ state = "none" /\ mode = "none"
  /\ binds = {} /\ listener = [c \in Channels |-> "none"]
  /\ adminAddr = <<>> /\ boundLoopback = FALSE /\ verified = FALSE
  /\ task = [c \in Channels |-> "none"] /\ srvShut = {}
  /\ errCh = <<>> /\ ctxDone = FALSE /\ timer = -1 /\ graceLeft = -1
  /\ seqElapsed = 0
  /\ conns = [c \in Channels |-> {}] /\ pending = {}
  /\ file = s[1] /\ db = s[2]

Init ==
  /\ \E s \in InitStores : Idle(s)
  /\ greq = NoReq /\ gresp = NoResp
  /\ amode = "none" /\ areq = NoAReq /\ aresp = NoAResp
  /\ NoStore
  /\ NoProbeCall
  /\ NoLog
  /\ NoRace

\* ------------------------------------------------------------ process exit
Alive == cmd # "none" /\ pc # "exited"
Serving == cmd = "serve" /\ pc # "exited"

\* os.Exit(code), or main returning: the process is gone, whatever it held.
Exit(code, site) ==
  /\ pc' = "exited" /\ exitCode' = code /\ exitAt' = site
  /\ UNCHANGED cmd

\* The same while the tasks run: the goroutines, the channel and the timers
\* go with the process.  What it held open stays on record: the handle, the
\* listeners and the requests that were being served.
Die(code, site) ==
  /\ Exit(code, site)
  /\ task' = [c \in Channels |-> "none"]
  /\ errCh' = <<>> /\ ctxDone' = FALSE /\ timer' = -1 /\ graceLeft' = -1
  /\ pending' = {}

\* A fresh process: every process-local variable at its zero value.
Fresh(c, first, host, ea, to) ==
  /\ cmd' = c /\ pc' = first /\ exitCode' = -1 /\ exitAt' = "none"
  /\ guidance' = FALSE
  /\ adminHost' = host /\ exitAfter' = ea /\ shutdownTO' = to
  /\ handle' = "none" /\ state' = "none" /\ mode' = "none"
  /\ binds' = {} /\ listener' = [c2 \in Channels |-> "none"]
  /\ adminAddr' = <<>> /\ boundLoopback' = FALSE /\ verified' = FALSE
  /\ task' = [c2 \in Channels |-> "none"] /\ srvShut' = {}
  /\ errCh' = <<>> /\ ctxDone' = FALSE /\ timer' = -1 /\ graceLeft' = -1
  /\ seqElapsed' = 0
  /\ conns' = [c2 \in Channels |-> {}] /\ pending' = {}

\* The terminated process is gone and the next command can be given: nothing
\* of it remains but the datastore.
Reap ==
  /\ pc = "exited"
  /\ Fresh("none", "idle", Host127, 0, 0)
  /\ UNCHANGED <<storeVars, pureVars>>

\* `app serve --admin-host=.. --exit-after=.. --shutdown-timeout=..`
StartServe ==
  /\ pc = "idle"
  /\ \E host \in Hosts, ea \in 0..MaxExitAfter, to \in 0..MaxGrace :
       Fresh("serve", "probe", host, ea, to)
  /\ UNCHANGED <<storeVars, pureVars>>

\* --------------------------------------------------------- existence probe
\* What os.Stat can answer for the node at the datastore path.
StatOutcomes(node) ==
  {"ioerr"} \cup (CASE node = "absent" -> {"notexist"}
                    [] node = "dir" -> {"dir"}
                    [] node = "special" -> {"special"}
                    [] OTHER -> {"file"})

\* Mutant: a missing datastore file is taken for a present one.
CheckExists_absentAsPresent(st) ==
  CASE st = "ioerr" -> [exists |-> FALSE, err |-> TRUE]
    [] st = "dir" -> [exists |-> FALSE, err |-> TRUE]
    [] OTHER -> [exists |-> TRUE, err |-> FALSE]

\* Mutant: a present datastore file is taken for a missing one.
CheckExists_presentAsAbsent(st) ==
  CASE st = "ioerr" -> [exists |-> FALSE, err |-> TRUE]
    [] st = "dir" -> [exists |-> FALSE, err |-> TRUE]
    [] OTHER -> [exists |-> FALSE, err |-> FALSE]

\* Mutant: every stat failure is taken for absence.
CheckExists_errAsAbsent(st) ==
  CASE st = "notexist" -> [exists |-> FALSE, err |-> FALSE]
    [] st = "ioerr" -> [exists |-> FALSE, err |-> FALSE]
    [] st = "dir" -> [exists |-> FALSE, err |-> TRUE]
    [] OTHER -> [exists |-> TRUE, err |-> FALSE]

\* store.CheckExists, on what os.Stat answered: an error that is not-exist, any
\* other error, a directory, or anything else (info.IsDir() is false).
CheckExists(st) ==
  CASE st = "notexist" -> [exists |-> FALSE, err |-> FALSE]
    [] st = "ioerr" -> [exists |-> FALSE, err |-> TRUE]
    [] st = "dir" -> [exists |-> FALSE, err |-> TRUE]
    [] OTHER -> [exists |-> TRUE, err |-> FALSE]

\* runServe, the existence check: an error exits, an absent datastore prints
\* the guidance and exits.
ServeProbe ==
  /\ cmd = "serve" /\ pc = "probe"
  /\ \E st \in StatOutcomes(file) :
       LET r == CheckExists(st) IN
       \/ /\ r.err
          /\ Exit(1, "probe") /\ UNCHANGED guidance
       \/ /\ ~r.err /\ ~r.exists
          /\ guidance' = TRUE
          /\ Exit(1, "missing")
       \/ /\ ~r.err /\ r.exists
          /\ pc' = "open"
          /\ UNCHANGED <<cmd, exitCode, exitAt, guidance>>
  /\ UNCHANGED <<storeVars, flagVars, bootVars, netVars, sigVars, reqVars, pureVars>>

\* ------------------------------------------------------------------- store
Pragmas == <<"journal_mode=WAL", "synchronous=NORMAL", "foreign_keys=ON", "busy_timeout=5000">>

\* Where SQLiteStore.Open can fail: 0 is sql.Open itself, k in 1..Len(Pragmas)
\* is pragma k, Len(Pragmas)+1 is success.  A directory cannot be opened as a
\* database: the first statement fails.
FailPoints(node) ==
  IF node = "dir" THEN 0..1 ELSE 0..(Len(Pragmas) + 1)

\* Mutant: s.db is assigned before the pragmas are applied.
Open_handleBeforePragmas(node, failAt, created) ==
  [err |-> failAt <= Len(Pragmas),
   handle |-> IF failAt = 0 THEN "none" ELSE "open",
   file |-> IF node = "absent" /\ (failAt > 1 \/ (failAt = 1 /\ created))
              THEN "regular" ELSE node,
   applied |-> SubSeq(Pragmas, 1, IF failAt > Len(Pragmas) THEN Len(Pragmas) ELSE failAt),
   connClosed |-> failAt \in 1..Len(Pragmas)]

\* SQLiteStore.Open.  The connection is made by the first statement, which
\* creates an absent file; when that statement itself fails the file was
\* created or not.  The pragmas are executed in order up to the first that
\* fails; on a pragma failure the connection is closed before the error is
\* returned and s.db stays nil.
Open(node, failAt, created) ==
  [err |-> failAt <= Len(Pragmas),
   handle |-> IF failAt <= Len(Pragmas) THEN "none" ELSE "open",
   file |-> IF node = "absent" /\ (failAt > 1 \/ (failAt = 1 /\ created))
              THEN "regular" ELSE node,
   applied |-> SubSeq(Pragmas, 1, IF failAt > Len(Pragmas) THEN Len(Pragmas) ELSE failAt),
   connClosed |-> failAt \in 1..Len(Pragmas)]

\* Mutant: Close without the nil check; s.db.Close() on a nil *sql.DB panics.
Close_noNilCheck(h) == IF h = "none" THEN "panic" ELSE "closed"

\* SQLiteStore.Close: s.db.Close() when s.db is not nil; sql.DB.Close on a
\* closed DB does nothing.  s.db is not reset.
Close(h) == IF h = "open" THEN "closed" ELSE h

\* SQLiteStore.GetSchemaVersion: the most recently applied version, "" when
\* the table holds no row; an error when not opened or the query fails (a
\* closed DB, no such table).
GetSchemaVersion(h, d, queryErr) ==
  IF h = "none" THEN [version |-> "", err |-> TRUE, notOpened |-> TRUE]
  ELSE IF h # "open" \/ queryErr \/ ~d.hasTable
    THEN [version |-> "", err |-> TRUE, notOpened |-> FALSE]
  ELSE IF d.rows = <<>> THEN [version |-> "", err |-> FALSE, notOpened |-> FALSE]
  ELSE [version |-> d.rows[Len(d.rows)], err |-> FALSE, notOpened |-> FALSE]

\* Mutant: any recorded version counts as the expected one.
CheckState_noVersionCompare(h, d, expectedSchema, catalogErr, queryErr) ==
  IF h = "none" THEN [state |-> StateMissing, err |-> TRUE, notOpened |-> TRUE]
  ELSE IF catalogErr \/ h # "open"
    THEN [state |-> StateUninitialized, err |-> TRUE, notOpened |-> FALSE]
  ELSE IF ~d.hasTable THEN [state |-> StateUninitialized, err |-> FALSE, notOpened |-> FALSE]
  ELSE LET v == GetSchemaVersion(h, d, queryErr) IN
       IF v.err THEN [state |-> StateUninitialized, err |-> TRUE, notOpened |-> FALSE]
       ELSE [state |-> StateReady, err |-> FALSE, notOpened |-> FALSE]

\* SQLiteStore.CheckState.  On a closed DB the catalog query fails.
CheckState(h, d, expectedSchema, catalogErr, queryErr) ==
  IF h = "none" THEN [state |-> StateMissing, err |-> TRUE, notOpened |-> TRUE]
  ELSE IF catalogErr \/ h # "open"
    THEN [state |-> StateUninitialized, err |-> TRUE, notOpened |-> FALSE]
  ELSE IF ~d.hasTable THEN [state |-> StateUninitialized, err |-> FALSE, notOpened |-> FALSE]
  ELSE LET v == GetSchemaVersion(h, d, queryErr) IN
       IF v.err THEN [state |-> StateUninitialized, err |-> TRUE, notOpened |-> FALSE]
       ELSE IF v.version # expectedSchema
         THEN [state |-> StateVersionMismatch, err |-> FALSE, notOpened |-> FALSE]
       ELSE [state |-> StateReady, err |-> FALSE, notOpened |-> FALSE]

\* Mutant: the failure of st.Open() is logged and the run goes on.
ServeOpen_continueOnError ==
  /\ cmd = "serve" /\ pc = "open"
  /\ \E failAt \in FailPoints(file), created \in BOOLEAN :
       LET r == Open(file, failAt, created) IN
       /\ file' = r.file
       /\ handle' = r.handle
       /\ pc' = "check"
       /\ UNCHANGED <<cmd, exitCode, exitAt, state, mode>>
  /\ UNCHANGED <<db, guidance, flagVars, netVars, sigVars, reqVars, pureVars>>

\* runServe: st.Open(); a failure exits.
ServeOpen ==
  /\ cmd = "serve" /\ pc = "open"
  /\ \E failAt \in FailPoints(file), created \in BOOLEAN :
       LET r == Open(file, failAt, created) IN
       /\ file' = r.file
       /\ \/ /\ r.err
             /\ Exit(1, "open")
             /\ UNCHANGED bootVars
          \/ /\ ~r.err
             /\ handle' = r.handle
             /\ pc' = "check"
             /\ UNCHANGED <<cmd, exitCode, exitAt, state, mode>>
  /\ UNCHANGED <<db, guidance, flagVars, netVars, sigVars, reqVars, pureVars>>

\* Mutant: a version mismatch is served in Normal mode.
SelectMode_mismatchNormal(s) ==
  IF s = StateUninitialized THEN "installation" ELSE "normal"

\* Mutant: a Ready datastore is served by the installation app.
SelectMode_readyInstallation(s) == "installation"

\* runServe: which serving mode a store state selects.
SelectMode(s) ==
  IF s = StateUninitialized THEN "installation"
  ELSE IF s = StateVersionMismatch THEN "installation"
  ELSE "normal"

\* Mutant: the error of st.CheckState() is dropped and the state returned
\* with it selects the mode.
ServeCheckState_ignoreError ==
  /\ cmd = "serve" /\ pc = "check"
  /\ \E catalogErr \in BOOLEAN, queryErr \in BOOLEAN :
       LET r == CheckState(handle, db, schemaVersion, catalogErr, queryErr) IN
       /\ state' = r.state
       /\ mode' = SelectMode(r.state)
       /\ pc' = "validate"
       /\ UNCHANGED <<cmd, exitCode, exitAt>>
  /\ UNCHANGED <<storeVars, guidance, flagVars, handle, netVars, sigVars, reqVars, pureVars>>

\* runServe: st.CheckState(); an error exits (os.Exit runs no deferred
\* call), otherwise the state selects the mode.
ServeCheckState ==
  /\ cmd = "serve" /\ pc = "check"
  /\ \E catalogErr \in BOOLEAN, queryErr \in BOOLEAN :
       LET r == CheckState(handle, db, schemaVersion, catalogErr, queryErr) IN
       \/ /\ r.err
          /\ Exit(1, "check")
          /\ UNCHANGED <<state, mode>>
       \/ /\ ~r.err
          /\ state' = r.state
          /\ mode' = SelectMode(r.state)
          /\ pc' = "validate"
          /\ UNCHANGED <<cmd, exitCode, exitAt>>
  /\ UNCHANGED <<storeVars, guidance, flagVars, handle, netVars, sigVars, reqVars, pureVars>>
\* ------------------------------------------------------ admin host and bind
\* Mutant: the admin host is only parsed, not checked for loopback.
AdminHostOK_parseOnly(h) == ParseIP(h) # NoIP

\* runServe / serveInstallationApp: the admin host must parse as an IP and
\* be a loopback address.
AdminHostOK(h) ==
  LET adminIP == ParseIP(h) IN ~(adminIP = NoIP \/ ~IsLoopback(adminIP))

ValidateAdminHost ==
  /\ cmd = "serve" /\ pc = "validate"
  /\ \/ /\ ~AdminHostOK(adminHost)
        /\ Exit(1, "host")
     \/ /\ AdminHostOK(adminHost)
        /\ pc' = "bind"
        /\ UNCHANGED <<cmd, exitCode, exitAt>>
  /\ UNCHANGED <<storeVars, guidance, flagVars, bootVars, netVars, sigVars, reqVars, pureVars>>

\* net.Listen("tcp", adminHost:adminPort): the port may be in use; the local
\* address the platform gives the socket is loopback or, anomalously, not.
BindAdmin ==
  /\ cmd = "serve" /\ pc = "bind"
  /\ binds' = binds \cup {"admin"}
  /\ adminAddr' = adminHost
  /\ \/ /\ Exit(1, "bind")
        /\ UNCHANGED <<listener, boundLoopback>>
     \/ /\ \E loop \in BOOLEAN : boundLoopback' = loop
        /\ listener' = [listener EXCEPT !["admin"] = "open"]
        /\ pc' = "verify"
        /\ UNCHANGED <<cmd, exitCode, exitAt>>
  /\ UNCHANGED <<storeVars, guidance, flagVars, bootVars, verified, task, srvShut, sigVars, reqVars, pureVars>>

\* Mutant: the post-bind check is skipped.
BoundAddrOK_unchecked(loop) == TRUE

\* The post-bind check on adminListener.Addr(): a TCP listener's address is
\* always a *net.TCPAddr, so the check is always made.
BoundAddrOK(loop) == ~(~loop)

\* Mutant: the failed post-bind check exits without adminListener.Close().
VerifyAdmin_exitWithoutClose ==
  /\ cmd = "serve" /\ pc = "verify"
  /\ \/ /\ ~BoundAddrOK(boundLoopback)
        /\ Exit(1, "verify")
        /\ UNCHANGED <<verified, listener>>
     \/ /\ BoundAddrOK(boundLoopback)
        /\ verified' = TRUE
        /\ pc' = "launch"
        /\ UNCHANGED <<cmd, exitCode, exitAt, listener>>
  /\ UNCHANGED <<storeVars, guidance, flagVars, bootVars, binds, adminAddr, boundLoopback, task, srvShut, sigVars, reqVars, pureVars>>

\* The post-bind check: a listener on a non-loopback address is closed and
\* the process exits.
VerifyAdmin ==
  /\ cmd = "serve" /\ pc = "verify"
  /\ \/ /\ ~BoundAddrOK(boundLoopback)
        /\ listener' = [listener EXCEPT !["admin"] = "closed"]
        /\ Exit(1, "verify")
        /\ UNCHANGED verified
     \/ /\ BoundAddrOK(boundLoopback)
        /\ verified' = TRUE
        /\ pc' = "launch"
        /\ UNCHANGED <<cmd, exitCode, exitAt, listener>>
  /\ UNCHANGED <<storeVars, guidance, flagVars, bootVars, binds, adminAddr, boundLoopback, task, srvShut, sigVars, reqVars, pureVars>>

\* Mutant: the exit-after timer is never started.
Launch_noTimer ==
  /\ cmd = "serve" /\ pc = "launch"
  /\ task' = [c \in Channels |-> "ready"]
  /\ timer' = -1
  /\ pc' = "select"
  /\ UNCHANGED <<storeVars, cmd, exitCode, exitAt, guidance, flagVars, bootVars,
                 binds, listener, adminAddr, boundLoopback, verified, srvShut,
                 errCh, ctxDone, graceLeft, seqElapsed, reqVars, pureVars>>

\* signal.NotifyContext, errCh, the two `go func` and the optional timer.
Launch ==
  /\ cmd = "serve" /\ pc = "launch"
  /\ task' = [c \in Channels |-> "ready"]
  /\ timer' = IF exitAfter > 0 THEN exitAfter ELSE -1
  /\ pc' = "select"
  /\ UNCHANGED <<storeVars, cmd, exitCode, exitAt, guidance, flagVars, bootVars,
                 binds, listener, adminAddr, boundLoopback, verified, srvShut,
                 errCh, ctxDone, graceLeft, seqElapsed, reqVars, pureVars>>
\* ------------------------------------------------------------- goroutines
\* errCh := make(chan error, 2)
ErrChCap == 2

\* errCh <- err, the buffered value.
Send(ch, who) == Append(ch, who)

\* Mutant: the error channel has room for one error less.
Report_smallerChannel(who) ==
  IF Len(errCh) < ErrChCap - 1
    THEN /\ errCh' = Send(errCh, who)
         /\ task' = [task EXCEPT ![who] = "done"]
  ELSE /\ task' = [task EXCEPT ![who] = "blocked"]
       /\ UNCHANGED errCh

\* A task reports its terminal error and finishes: the send goes through
\* when the channel has room, and blocks the task when it has none.
Report(who) ==
  IF Len(errCh) < ErrChCap
    THEN /\ errCh' = Send(errCh, who)
         /\ task' = [task EXCEPT ![who] = "done"]
  ELSE /\ task' = [task EXCEPT ![who] = "blocked"]
       /\ UNCHANGED errCh

\* The public task: publicSrv.ListenAndServe().  After Shutdown it returns
\* ErrServerClosed without binding; a bind failure is sent to errCh.
PublicListen ==
  /\ Serving /\ task["public"] = "ready"
  /\ \/ /\ "public" \in srvShut
        /\ task' = [task EXCEPT !["public"] = "done"]
        /\ UNCHANGED <<binds, listener, errCh>>
     \/ /\ "public" \notin srvShut
        /\ binds' = binds \cup {"public"}
        /\ \/ /\ listener' = [listener EXCEPT !["public"] = "open"]
              /\ task' = [task EXCEPT !["public"] = "serving"]
              /\ UNCHANGED errCh
           \/ /\ Report("public")
              /\ UNCHANGED listener
  /\ UNCHANGED <<storeVars, procVars, flagVars, bootVars, adminAddr, boundLoopback, verified, srvShut,
                 ctxDone, timer, graceLeft, seqElapsed, reqVars, pureVars>>

\* The admin task: adminSrv.Serve(adminListener).  After Shutdown it returns
\* ErrServerClosed and its deferred l.Close() closes the listener.
AdminServe ==
  /\ Serving /\ task["admin"] = "ready"
  /\ \/ /\ "admin" \in srvShut
        /\ task' = [task EXCEPT !["admin"] = "done"]
        /\ listener' = [listener EXCEPT !["admin"] = "closed"]
     \/ /\ "admin" \notin srvShut
        /\ task' = [task EXCEPT !["admin"] = "serving"]
        /\ UNCHANGED listener
  /\ UNCHANGED <<storeVars, procVars, flagVars, bootVars, binds, adminAddr, boundLoopback, verified, srvShut,
                 sigVars, reqVars, pureVars>>

\* Accept fails for good on a serving listener: Serve returns the error, the
\* listener is closed and the task sends the error to errCh.
AcceptFail ==
  /\ Serving
  /\ \E c \in Channels :
       /\ task[c] = "serving" /\ c \notin srvShut
       /\ listener' = [listener EXCEPT ![c] = "closed"]
       /\ Report(c)
  /\ UNCHANGED <<storeVars, procVars, flagVars, bootVars, binds, adminAddr, boundLoopback, verified, srvShut,
                 ctxDone, timer, graceLeft, seqElapsed, reqVars, pureVars>>

\* The exit-after goroutine: after the sleep, os.Interrupt to the own process,
\* which cancels the signal context.
TimerFire ==
  /\ Serving /\ timer = 0
  /\ timer' = -1
  /\ ctxDone' = TRUE
  /\ UNCHANGED <<storeVars, procVars, flagVars, bootVars, netVars, errCh, graceLeft, seqElapsed,
                 reqVars, pureVars>>

\* An interrupt from outside while the signal context is registered.
Signal ==
  /\ Serving /\ pc \in {"select", "waitPublic", "waitAdmin", "complete"}
  /\ ~ctxDone
  /\ ctxDone' = TRUE
  /\ UNCHANGED <<storeVars, procVars, flagVars, bootVars, netVars, errCh, timer, graceLeft, seqElapsed,
                 reqVars, pureVars>>

\* A termination signal (SIGTERM) from outside.  NotifyContext registers
\* os.Interrupt and os.Kill only: SIGKILL cannot be caught and SIGTERM is not
\* registered, so the Go runtime's default ends the process at once (status
\* 128+15) and neither the select nor any deferred call runs.
Terminate ==
  /\ Serving /\ pc \in {"select", "waitPublic", "waitAdmin", "complete"}
  /\ Die(143, "sigterm")
  /\ UNCHANGED <<storeVars, guidance, flagVars, bootVars,
                 binds, listener, adminAddr, boundLoopback, verified, srvShut,
                 seqElapsed, conns, pureVars>>

\* Mutant: the goroutine of /admin/shutdown closes the datastore itself
\* before it signals.
ShutdownSignal_closeHandle ==
  /\ Serving /\ "shutdown" \in pending
  /\ pending' = pending \ {"shutdown"}
  /\ ctxDone' = TRUE
  /\ handle' = Close(handle)
  /\ UNCHANGED <<storeVars, procVars, flagVars, state, mode, netVars, errCh, timer, graceLeft,
                 seqElapsed, conns, pureVars>>

\* The goroutine of /admin/shutdown: after 200 ms, os.Interrupt to the own
\* process.
ShutdownSignal ==
  /\ Serving /\ "shutdown" \in pending
  /\ pending' = pending \ {"shutdown"}
  /\ ctxDone' = TRUE
  /\ UNCHANGED <<storeVars, procVars, flagVars, bootVars, netVars, errCh, timer, graceLeft, seqElapsed,
                 conns, pureVars>>

\* Mutant: the goroutine of /admin/restart closes the datastore before it
\* exits.
RestartExit_closeHandle ==
  /\ Serving /\ "restart" \in pending
  /\ Die(0, "restart")
  /\ handle' = Close(handle)
  /\ UNCHANGED <<storeVars, guidance, flagVars, state, mode,
                 binds, listener, adminAddr, boundLoopback, verified, srvShut,
                 seqElapsed, conns, pureVars>>

\* The goroutine of /admin/restart: after 200 ms, os.Exit(0).
RestartExit ==
  /\ Serving /\ "restart" \in pending
  /\ Die(0, "restart")
  /\ UNCHANGED <<storeVars, guidance, flagVars, bootVars,
                 binds, listener, adminAddr, boundLoopback, verified, srvShut,
                 seqElapsed, conns, pureVars>>

\* ---------------------------------------------------------------- requests
\* Header values are texts over three tokens; "" is the absent header.
HdrToks == {"application/", "json", "text"}
AppJSON == <<"application/", "json">>
TextPlain == <<"text">>
Methods == {"GET", "HEAD", "OPTIONS", "POST", "PUT"}

\* strings.Contains
Contains(str, sub) ==
  \E i \in 0..(Len(str) - Len(sub)) : SubSeq(str, i + 1, i + Len(sub)) = sub

\* strings.HasPrefix
HasPrefix(str, prefix) ==
  Len(str) >= Len(prefix) /\ SubSeq(str, 1, Len(prefix)) = prefix

\* Mutant: the Content-Type rule is evaluated before the Accept rule.
jsonOnly_contentTypeFirst(r) ==
  IF r.method # "GET" /\ ~HasPrefix(r.ctype, AppJSON)
    THEN [status |-> 415, error |-> "unsupported_media_type", next |-> FALSE]
  ELSE IF ~Contains(r.accept, AppJSON) /\ r.accept # <<>>
    THEN [status |-> 406, error |-> "not_acceptable", next |-> FALSE]
  ELSE [status |-> 200, error |-> "", next |-> TRUE]

\* Mutant: a request without an Accept header is refused as well.
jsonOnly_acceptRequired(r) ==
  IF ~Contains(r.accept, AppJSON)
    THEN [status |-> 406, error |-> "not_acceptable", next |-> FALSE]
  ELSE IF r.method # "GET" /\ ~HasPrefix(r.ctype, AppJSON)
    THEN [status |-> 415, error |-> "unsupported_media_type", next |-> FALSE]
  ELSE [status |-> 200, error |-> "", next |-> TRUE]

\* jsonOnly: the guard's answer, or next = TRUE when it calls the handler.
jsonOnly(r) ==
  IF ~Contains(r.accept, AppJSON) /\ r.accept # <<>>
    THEN [status |-> 406, error |-> "not_acceptable", next |-> FALSE]
  ELSE IF r.method # "GET" /\ ~HasPrefix(r.ctype, AppJSON)
    THEN [status |-> 415, error |-> "unsupported_media_type", next |-> FALSE]
  ELSE [status |-> 200, error |-> "", next |-> TRUE]

\* writeJSONError: the standard error body {"error": code, "message": msg}.
writeJSONError(status, code) ==
  [status |-> status, error |-> code, message |-> TRUE, body |-> "error_json"]

\* Mutant: /admin/restart is registered without the guard.
AdminHandlers_restartBare(m) ==
  IF m = "normal"
    THEN {[path |-> "/admin/echo", guarded |-> TRUE],
          [path |-> "/admin/status", guarded |-> TRUE],
          [path |-> "/admin/shutdown", guarded |-> TRUE],
          [path |-> "/admin/restart", guarded |-> FALSE]}
  ELSE {[path |-> "/admin/status", guarded |-> TRUE]}

\* Mutant: serveInstallationApp registers /admin/shutdown as well.
AdminHandlers_installShutdown(m) ==
  IF m = "normal"
    THEN {[path |-> "/admin/echo", guarded |-> TRUE],
          [path |-> "/admin/status", guarded |-> TRUE],
          [path |-> "/admin/shutdown", guarded |-> TRUE],
          [path |-> "/admin/restart", guarded |-> TRUE]}
  ELSE {[path |-> "/admin/status", guarded |-> TRUE],
        [path |-> "/admin/shutdown", guarded |-> TRUE]}

\* The adminMux.Handle registrations of each mode: the pattern, and whether
\* the handler is wrapped in jsonOnly.
AdminHandlers(m) ==
  IF m = "normal"
    THEN {[path |-> "/admin/echo", guarded |-> TRUE],
          [path |-> "/admin/status", guarded |-> TRUE],
          [path |-> "/admin/shutdown", guarded |-> TRUE],
          [path |-> "/admin/restart", guarded |-> TRUE]}
  ELSE {[path |-> "/admin/status", guarded |-> TRUE]}

\* The routes each mode registers on the admin mux.
AdminRoutes(m) == {h.path : h \in AdminHandlers(m)}

\* The "mode" field of /admin/status in each mode's handler.
StatusMode(m) == IF m = "normal" THEN "running" ELSE "installation"

\* The route handlers.  /admin/echo answers a GET from the query string and
\* otherwise decodes the body, 400 invalid_request when that fails (an empty
\* body fails); the other handlers encode their JSON answer whatever the
\* method.
AdminHandler(m, r) ==
  IF r.path = "/admin/echo" /\ r.method # "GET" /\ r.body # "valid"
    THEN writeJSONError(400, "invalid_request")
  ELSE [status |-> 200, error |-> "", message |-> FALSE, body |-> "json"]

\* Mutant: the guard writes its error and calls the handler all the same.
AdminServeHTTP_rejectThenHandle(m, r) ==
  IF r.path \notin AdminRoutes(m)
    THEN [path |-> r.path, status |-> 404, error |-> "", message |-> FALSE,
          body |-> "text", mode |-> "", handler |-> ""]
  ELSE LET h == CHOOSE x \in AdminHandlers(m) : x.path = r.path
           g == IF h.guarded THEN jsonOnly(r) ELSE [status |-> 200, error |-> "", next |-> TRUE]
           e == writeJSONError(g.status, g.error)
           a == AdminHandler(m, r)
       IN
       IF ~g.next
         THEN [path |-> r.path, status |-> e.status, error |-> e.error, message |-> e.message,
               body |-> e.body, mode |-> "", handler |-> r.path]
       ELSE [path |-> r.path, status |-> a.status, error |-> a.error, message |-> a.message,
             body |-> a.body,
             mode |-> IF r.path = "/admin/status" THEN StatusMode(m) ELSE "",
             handler |-> r.path]

\* The admin mux on one request: an unregistered path is the mux's own 404
\* (http.NotFound, a text body); a registered one goes through the guard,
\* when wrapped in it, and then to its handler.
AdminServeHTTP(m, r) ==
  IF r.path \notin AdminRoutes(m)
    THEN [path |-> r.path, status |-> 404, error |-> "", message |-> FALSE,
          body |-> "text", mode |-> "", handler |-> ""]
  ELSE LET h == CHOOSE x \in AdminHandlers(m) : x.path = r.path
           g == IF h.guarded THEN jsonOnly(r) ELSE [status |-> 200, error |-> "", next |-> TRUE]
           e == writeJSONError(g.status, g.error)
           a == AdminHandler(m, r)
       IN
       IF ~g.next
         THEN [path |-> r.path, status |-> e.status, error |-> e.error, message |-> e.message,
               body |-> e.body, mode |-> "", handler |-> ""]
       ELSE [path |-> r.path, status |-> a.status, error |-> a.error, message |-> a.message,
             body |-> a.body,
             mode |-> IF r.path = "/admin/status" THEN StatusMode(m) ELSE "",
             handler |-> r.path]

\* Request paths under the static tree /public/.
StaticPaths == {"/public/app.css"}

\* The pattern of the public mux that a request path selects: the exact
\* patterns first, then the subtree /public/, then the catch-all "/".  No
\* /admin/ pattern is registered on this mux.
PublicPattern(path) ==
  IF path \in {"/live", "/ready", "/version"} THEN path
  ELSE IF path \in StaticPaths THEN "/public/"
  ELSE "/"

\* The subtree /public/ is registered by runServe only.
PublicRoutes(m) ==
  IF m = "normal" THEN {"/", "/live", "/ready", "/version", "/public/"}
  ELSE {"/", "/live", "/ready", "/version"}

\* Mutant: the admin routes are registered on the public mux as well.
PublicServeHTTP_adminOnPublic(m, path) ==
  LET h == IF path \in AdminRoutes(m) THEN path
           ELSE IF PublicPattern(path) \in PublicRoutes(m) THEN PublicPattern(path) ELSE "/" IN
  [path |-> path, handler |-> h,
   status |-> IF h = "/ready" /\ m # "normal" THEN 503 ELSE 200,
   schema |-> IF h = "/version" THEN schemaVersion ELSE "",
   page |-> IF h # "/" THEN "" ELSE IF m = "normal" THEN "index.html" ELSE "install.html"]

\* The public mux on one request: the handler its path selects and what that
\* handler answers in each mode.  /live is 200; /ready is 200 in runServe
\* and 503 in serveInstallationApp; /version encodes the binary's
\* schemaVersion; "/" serves index.html or install.html and /public/ a file
\* of publicDir (the files are taken to be there).
PublicServeHTTP(m, path) ==
  LET h == IF PublicPattern(path) \in PublicRoutes(m) THEN PublicPattern(path) ELSE "/" IN
  [path |-> path, handler |-> h,
   status |-> IF h = "/ready" /\ m # "normal" THEN 503 ELSE 200,
   schema |-> IF h = "/version" THEN schemaVersion ELSE "",
   page |-> IF h # "/" THEN "" ELSE IF m = "normal" THEN "index.html" ELSE "install.html"]

PublicPaths == {"/live", "/ready"}

\* Every kind of path a client can ask the public listener for.
AllPublicPaths ==
  {"/live", "/ready", "/version", "/", "/public/app.css",
   "/admin/status", "/admin/echo", "/admin/shutdown", "/admin/restart"}

\* The admin requests of the lifecycle model.
AdminReqs ==
  {[method |-> "GET", path |-> "/admin/status", accept |-> <<>>, ctype |-> <<>>, body |-> "none"],
   [method |-> "GET", path |-> "/admin/status", accept |-> TextPlain, ctype |-> <<>>, body |-> "none"],
   [method |-> "GET", path |-> "/admin/shutdown", accept |-> <<>>, ctype |-> <<>>, body |-> "none"],
   [method |-> "GET", path |-> "/admin/restart", accept |-> AppJSON, ctype |-> <<>>, body |-> "none"],
   [method |-> "GET", path |-> "/admin/restart", accept |-> <<>>, ctype |-> <<>>, body |-> "none"]}

\* A channel accepts a connection only while its task serves an open listener.
Accepting(c) == Serving /\ task[c] = "serving" /\ listener[c] = "open"

\* What running a handler starts: the handlers of /admin/shutdown and
\* /admin/restart start their delayed goroutine, the others nothing.
Triggered(handler, p) ==
  IF handler = "/admin/shutdown" THEN p \cup {"shutdown"}
  ELSE IF handler = "/admin/restart" THEN p \cup {"restart"}
  ELSE p

\* Mutant: /ready polls the state of the datastore on every request.
PublicRequestOn_repoll(paths) ==
  /\ Accepting("public")
  /\ Cardinality(conns["public"]) < MaxInflight
  /\ \E path \in paths :
       LET now == SelectMode(CheckState(handle, db, schemaVersion, FALSE, FALSE).state)
           resp == PublicServeHTTP(now, path) IN
       /\ conns' = [conns EXCEPT !["public"] = @ \cup {resp}]
       /\ pending' = Triggered(resp.handler, pending)
  /\ UNCHANGED <<storeVars, procVars, flagVars, bootVars, netVars, sigVars, pureVars>>

\* A request on the public listener for one of the given paths: the public
\* mux of the mode chosen at startup answers it.
PublicRequestOn(paths) ==
  /\ Accepting("public")
  /\ Cardinality(conns["public"]) < MaxInflight
  /\ \E path \in paths :
       LET resp == PublicServeHTTP(mode, path) IN
       /\ conns' = [conns EXCEPT !["public"] = @ \cup {resp}]
       /\ pending' = Triggered(resp.handler, pending)
  /\ UNCHANGED <<storeVars, procVars, flagVars, bootVars, netVars, sigVars, pureVars>>

PublicRequest == PublicRequestOn(PublicPaths)

\* An admin request: the handlers of /admin/shutdown and /admin/restart start
\* their delayed goroutine after writing the acknowledgement.
AdminRequestOn(reqs) ==
  /\ Accepting("admin")
  /\ Cardinality(conns["admin"]) < MaxInflight
  /\ \E r \in reqs :
       LET resp == AdminServeHTTP(mode, r) IN
       /\ conns' = [conns EXCEPT !["admin"] = @ \cup {resp}]
       /\ pending' = Triggered(resp.handler, pending)
  /\ UNCHANGED <<storeVars, procVars, flagVars, bootVars, netVars, sigVars, pureVars>>

AdminRequest == AdminRequestOn(AdminReqs)

\* A request being served completes and its connection goes away.
Finish ==
  /\ Serving
  /\ \E c \in Channels : \E resp \in conns[c] :
       conns' = [conns EXCEPT ![c] = @ \ {resp}]
  /\ UNCHANGED <<storeVars, procVars, flagVars, bootVars, netVars, sigVars, pending, pureVars>>
\* ---------------------------------------------------------------- shutdown
\* http.Server.Shutdown, first half: the server is marked as shutting down,
\* the listeners it tracks are closed and its Serve call returns.  A
\* listener whose Serve has not run yet is not tracked.
SrvShutdown(c, ls, ts) ==
  [listener |-> [ls EXCEPT ![c] = IF ts[c] = "serving" THEN "closed" ELSE @],
   task |-> [ts EXCEPT ![c] = IF @ = "serving" THEN "done" ELSE @]]

\* http.Server.Shutdown, second half: it returns when no connection is
\* active any more or when the context's deadline has passed; it closes no
\* active connection.
ShutdownReturns(c) == conns[c] = {} \/ graceLeft = 0

\* The select over ctx.Done() and errCh wakes, context.WithTimeout(shutdownTO)
\* sets the one deadline of the sequence, and publicSrv.Shutdown is called.
SelectWake ==
  /\ cmd = "serve" /\ pc = "select"
  /\ \/ /\ ctxDone
        /\ UNCHANGED errCh
     \/ /\ errCh # <<>>
        /\ errCh' = Tail(errCh)
  /\ graceLeft' = shutdownTO
  /\ seqElapsed' = 0
  /\ srvShut' = srvShut \cup {"public"}
  /\ listener' = SrvShutdown("public", listener, task).listener
  /\ task' = SrvShutdown("public", listener, task).task
  /\ pc' = "waitPublic"
  /\ UNCHANGED <<storeVars, cmd, exitCode, exitAt, guidance, flagVars, bootVars,
                 binds, adminAddr, boundLoopback, verified,
                 ctxDone, timer, reqVars, pureVars>>

\* Mutant: adminSrv.Shutdown is given a context with a timeout of its own.
ShutdownPublicReturn_freshWindow ==
  /\ cmd = "serve" /\ pc = "waitPublic"
  /\ ShutdownReturns("public")
  /\ srvShut' = srvShut \cup {"admin"}
  /\ listener' = SrvShutdown("admin", listener, task).listener
  /\ task' = SrvShutdown("admin", listener, task).task
  /\ graceLeft' = shutdownTO
  /\ pc' = "waitAdmin"
  /\ UNCHANGED <<storeVars, cmd, exitCode, exitAt, guidance, flagVars, bootVars,
                 binds, adminAddr, boundLoopback, verified,
                 errCh, ctxDone, timer, seqElapsed, reqVars, pureVars>>

\* publicSrv.Shutdown returns and adminSrv.Shutdown is called with the same
\* context.
ShutdownPublicReturn ==
  /\ cmd = "serve" /\ pc = "waitPublic"
  /\ ShutdownReturns("public")
  /\ srvShut' = srvShut \cup {"admin"}
  /\ listener' = SrvShutdown("admin", listener, task).listener
  /\ task' = SrvShutdown("admin", listener, task).task
  /\ pc' = "waitAdmin"
  /\ UNCHANGED <<storeVars, cmd, exitCode, exitAt, guidance, flagVars, bootVars,
                 binds, adminAddr, boundLoopback, verified,
                 sigVars, reqVars, pureVars>>

\* adminSrv.Shutdown returns: "shutdown complete".
ShutdownAdminReturn ==
  /\ cmd = "serve" /\ pc = "waitAdmin"
  /\ ShutdownReturns("admin")
  /\ pc' = "complete"
  /\ UNCHANGED <<storeVars, cmd, exitCode, exitAt, guidance, flagVars, bootVars, netVars,
                 sigVars, reqVars, pureVars>>

\* Mutant: a run whose public listener could not be bound ends with status 1.
ServeReturn_errorStatus ==
  /\ cmd = "serve" /\ pc = "complete"
  /\ handle' = Close(handle)
  /\ Die(IF "public" \in binds /\ listener["public"] = "none" THEN 1 ELSE 0, "done")
  /\ UNCHANGED <<storeVars, guidance, flagVars, state, mode,
                 binds, listener, adminAddr, boundLoopback, verified, srvShut,
                 seqElapsed, conns, pureVars>>

\* The serve function returns: its deferred calls run (cancel(), stop() and
\* st.Close()), main returns and the process exits with status 0.
ServeReturn ==
  /\ cmd = "serve" /\ pc = "complete"
  /\ handle' = Close(handle)
  /\ Die(0, "done")
  /\ UNCHANGED <<storeVars, guidance, flagVars, state, mode,
                 binds, listener, adminAddr, boundLoopback, verified, srvShut,
                 seqElapsed, conns, pureVars>>

\* -------------------------------------------------------------------- time
\* The main path is blocked: in the select with nothing to receive, or in a
\* Shutdown that waits for active connections before its deadline.
MainBlocked ==
  \/ pc = "select" /\ ~ctxDone /\ errCh = <<>>
  \/ pc = "waitPublic" /\ ~ShutdownReturns("public")
  \/ pc = "waitAdmin" /\ ~ShutdownReturns("admin")

\* One tick passes: the running timers count down.
Tick ==
  /\ Serving /\ MainBlocked
  /\ timer # 0
  /\ timer > 0 \/ graceLeft > 0
  /\ timer' = IF timer > 0 THEN timer - 1 ELSE timer
  /\ graceLeft' = IF graceLeft > 0 THEN graceLeft - 1 ELSE graceLeft
  /\ seqElapsed' = IF graceLeft # -1 THEN seqElapsed + 1 ELSE seqElapsed
  /\ UNCHANGED <<storeVars, procVars, flagVars, bootVars, netVars, errCh, ctxDone, reqVars, pureVars>>
\* --------------------------------------------------------------- db create
\* `app db create`
StartCreate ==
  /\ pc = "idle"
  /\ Fresh("create", "c_probe", Host127, 0, 0)
  /\ UNCHANGED <<storeVars, pureVars>>

\* runDBCreate, the existence check: an error or an existing datastore exits.
CreateProbe ==
  /\ cmd = "create" /\ pc = "c_probe"
  /\ \E st \in StatOutcomes(file) :
       LET r == CheckExists(st) IN
       \/ /\ r.err
          /\ Exit(1, "probe")
       \/ /\ ~r.err /\ r.exists
          /\ Exit(1, "exists")
       \/ /\ ~r.err /\ ~r.exists
          /\ pc' = "c_open"
          /\ UNCHANGED <<cmd, exitCode, exitAt>>
  /\ UNCHANGED <<storeVars, guidance, flagVars, bootVars, netVars, sigVars, reqVars, pureVars>>

\* runDBCreate: st.Open(); a failure exits and removes nothing.
CreateOpen ==
  /\ cmd = "create" /\ pc = "c_open"
  /\ \E failAt \in FailPoints(file), created \in BOOLEAN :
       LET r == Open(file, failAt, created) IN
       /\ file' = r.file
       /\ db' = IF file = "absent" THEN EmptyDB ELSE db
       /\ \/ /\ r.err
             /\ Exit(1, "open")
             /\ UNCHANGED handle
          \/ /\ ~r.err
             /\ handle' = r.handle
             /\ pc' = "c_init"
             /\ UNCHANGED <<cmd, exitCode, exitAt>>
  /\ UNCHANGED <<guidance, flagVars, state, mode, netVars, sigVars, reqVars, pureVars>>

\* Where SQLiteStore.InitSchema can fail.
InitFailures == {"none", "begin", "create", "insert", "commit"}

\* initialSchema, executed: CREATE TABLE IF NOT EXISTS schema_migrations.
ExecCreateTable(d) == [d EXCEPT !.hasTable = TRUE]

\* version is the table's primary key: a version already recorded cannot be
\* inserted again.
InsertFails(d, version) == \E i \in 1..Len(d.rows) : d.rows[i] = version

\* INSERT INTO schema_migrations (version, applied_at), executed.
ExecInsert(d, version) == [d EXCEPT !.rows = Append(@, version)]

\* Mutant: the statements run on the connection, outside a transaction, so
\* whatever was executed before a failure stays.
InitSchema_noTx(h, d, version, failure) ==
  IF h = "none" THEN [err |-> TRUE, notOpened |-> TRUE, db |-> d]
  ELSE IF h # "open" \/ failure = "begin" THEN [err |-> TRUE, notOpened |-> FALSE, db |-> d]
  ELSE IF failure = "create" THEN [err |-> TRUE, notOpened |-> FALSE, db |-> d]
  ELSE LET w1 == ExecCreateTable(d) IN
       IF failure = "insert" \/ InsertFails(w1, version)
         THEN [err |-> TRUE, notOpened |-> FALSE, db |-> w1]
       ELSE LET w2 == ExecInsert(w1, version) IN
            IF failure = "commit" THEN [err |-> TRUE, notOpened |-> FALSE, db |-> w2]
            ELSE [err |-> FALSE, notOpened |-> FALSE, db |-> w2]

\* SQLiteStore.InitSchema: Begin, the CREATE TABLE and the INSERT on the
\* transaction's view of the datastore, Commit.  The datastore changes at a
\* successful Commit only; on every error return the deferred tx.Rollback()
\* drops the transaction's view.
InitSchema(h, d, version, failure) ==
  IF h = "none" THEN [err |-> TRUE, notOpened |-> TRUE, db |-> d]
  ELSE IF h # "open" \/ failure = "begin" THEN [err |-> TRUE, notOpened |-> FALSE, db |-> d]
  ELSE IF failure = "create" THEN [err |-> TRUE, notOpened |-> FALSE, db |-> d]
  ELSE LET w1 == ExecCreateTable(d) IN
       IF failure = "insert" \/ InsertFails(w1, version)
         THEN [err |-> TRUE, notOpened |-> FALSE, db |-> d]
       ELSE LET w2 == ExecInsert(w1, version) IN
            IF failure = "commit" THEN [err |-> TRUE, notOpened |-> FALSE, db |-> d]
            ELSE [err |-> FALSE, notOpened |-> FALSE, db |-> w2]

\* runDBCreate: st.InitSchema(schemaVersion); on failure st.Close(),
\* os.Remove(dbPath) and exit.
CreateInit ==
  /\ cmd = "create" /\ pc = "c_init"
  /\ \E failure \in InitFailures :
       LET r == InitSchema(handle, db, schemaVersion, failure) IN
       \/ /\ r.err
          /\ handle' = Close(handle)
          /\ file' = "absent" /\ db' = EmptyDB
          /\ Exit(1, "init")
       \/ /\ ~r.err
          /\ db' = r.db
          /\ pc' = "c_done"
          /\ UNCHANGED <<file, cmd, exitCode, exitAt, handle>>
  /\ UNCHANGED <<guidance, flagVars, state, mode, netVars, sigVars, reqVars, pureVars>>

\* runDBCreate returns: the deferred st.Close() runs, exit status 0.
CreateReturn ==
  /\ cmd = "create" /\ pc = "c_done"
  /\ handle' = Close(handle)
  /\ Exit(0, "done")
  /\ UNCHANGED <<storeVars, guidance, flagVars, state, mode, netVars, sigVars, reqVars, pureVars>>

\* ----------------------------------------------------------- specification
MainStep ==
  \/ ServeProbe \/ ServeOpen \/ ServeCheckState \/ ValidateAdminHost
  \/ BindAdmin \/ VerifyAdmin \/ Launch \/ SelectWake
  \/ ShutdownPublicReturn \/ ShutdownAdminReturn \/ ServeReturn

Next ==
  \/ StartServe \/ StartCreate \/ Reap
  \/ ServeProbe \/ ServeOpen \/ ServeCheckState \/ ValidateAdminHost
  \/ BindAdmin \/ VerifyAdmin \/ Launch \/ SelectWake
  \/ ShutdownPublicReturn \/ ShutdownAdminReturn \/ ServeReturn
  \/ PublicListen \/ AdminServe \/ AcceptFail
  \/ TimerFire \/ Signal \/ Terminate \/ ShutdownSignal \/ RestartExit
  \/ PublicRequest \/ AdminRequest \/ Finish
  \/ Tick
  \/ CreateProbe \/ CreateOpen \/ CreateInit \/ CreateReturn

Spec == Init /\ [][Next]_vars

\* The main path and the goroutines are scheduled when they can run, and time
\* passes; signals from outside, requests and failures are not obliged to
\* happen.
FairSpec ==
  /\ Spec
  /\ WF_vars(MainStep)
  /\ WF_vars(PublicListen) /\ WF_vars(AdminServe)
  /\ WF_vars(TimerFire) /\ WF_vars(ShutdownSignal) /\ WF_vars(RestartExit)
  /\ WF_vars(Tick)

\* ------------------------------------------- create, serve and the datastore
\* `app serve` with the default admin host and no --exit-after.
StartServeDefault ==
  /\ pc = "idle"
  /\ \E to \in 0..MaxGrace : Fresh("serve", "probe", Host127, 0, to)
  /\ UNCHANGED <<storeVars, pureVars>>

\* Something outside the process changes the datastore while serve runs in
\* its mode: the version table is dropped, or its record is replaced.
Tamper ==
  /\ Serving /\ mode # "none" /\ pc = "select"
  /\ file = "regular" /\ db.hasTable
  /\ \/ db' = EmptyDB
     \/ \E v \in Versions : db.rows # <<v>> /\ db' = [db EXCEPT !.rows = <<v>>]
  /\ UNCHANGED <<file, procVars, flagVars, bootVars, netVars, sigVars, reqVars, pureVars>>

\* A request on the public listener for any path.
PublicRequestAny == PublicRequestOn(AllPublicPaths)

\* The commands run one after the other from a location with no datastore.
RunInit ==
  /\ Idle(<<"absent", EmptyDB>>)
  /\ greq = NoReq /\ gresp = NoResp
  /\ amode = "none" /\ areq = NoAReq /\ aresp = NoAResp
  /\ NoStore
  /\ NoProbeCall
  /\ NoLog
  /\ NoRace

RunNext ==
  \/ StartServeDefault \/ StartCreate \/ Reap
  \/ ServeProbe \/ ServeOpen \/ ServeCheckState \/ ValidateAdminHost
  \/ BindAdmin \/ VerifyAdmin \/ Launch \/ SelectWake
  \/ ShutdownPublicReturn \/ ShutdownAdminReturn \/ ServeReturn
  \/ PublicListen \/ AdminServe \/ AcceptFail
  \/ Signal \/ Terminate \/ ShutdownSignal \/ RestartExit
  \/ PublicRequestAny \/ AdminRequest \/ Finish
  \/ Tick
  \/ CreateProbe \/ CreateOpen \/ CreateInit \/ CreateReturn
  \/ Tamper

RunSpec == RunInit /\ [][RunNext]_vars

\* ------------------------------------------------------ the guard on its own
HdrValues == UNION {[1..n -> HdrToks] : n \in 0..MaxHdrLen}

GuardReqs == [method : Methods, accept : HdrValues, ctype : HdrValues]

GuardInit ==
  /\ Idle(<<"absent", EmptyDB>>)
  /\ greq \in GuardReqs /\ gresp = NoResp
  /\ amode = "none" /\ areq = NoAReq /\ aresp = NoAResp
  /\ NoStore
  /\ NoProbeCall
  /\ NoLog
  /\ NoRace

\* One request goes through jsonOnly.
GuardApply ==
  /\ gresp = NoResp /\ greq # NoReq
  /\ gresp' = jsonOnly(greq)
  /\ UNCHANGED <<storeVars, procVars, flagVars, bootVars, netVars, sigVars, reqVars, greq, muxVars, objVars, probeVars, logVars, raceVars>>

GuardSpec == GuardInit /\ [][GuardApply]_vars

\* ---------------------------------------------------- the admin mux on its own
\* Requests to the admin channel: every method, the registered paths and one
\* that no mode registers, absent / JSON / text headers, and no body, a JSON
\* body or one that does not decode.
MuxPaths == AdminRoutes("normal") \cup {"/admin/other"}

MuxReqs ==
  [method : Methods, path : MuxPaths, accept : {<<>>, AppJSON, TextPlain},
   ctype : {<<>>, AppJSON, TextPlain}, body : {"none", "valid", "invalid"}]

MuxInit ==
  /\ Idle(<<"absent", EmptyDB>>)
  /\ greq = NoReq /\ gresp = NoResp
  /\ amode \in {"normal", "installation"}
  /\ areq \in MuxReqs /\ aresp = NoAResp
  /\ NoStore
  /\ NoProbeCall
  /\ NoLog
  /\ NoRace

\* One request goes through the admin mux of the mode.
MuxApply ==
  /\ aresp = NoAResp /\ areq # NoAReq
  /\ aresp' = AdminServeHTTP(amode, areq)
  /\ UNCHANGED <<storeVars, procVars, flagVars, bootVars, netVars, sigVars, reqVars,
                 guardVars, amode, areq, objVars, probeVars, logVars, raceVars>>

MuxSpec == MuxInit /\ [][MuxApply]_vars

\* ------------------------------------------- the admin channel of a serve run
\* Admin requests of every kind: with and without a body, an acceptable or an
\* unacceptable Accept, with and without a JSON Content-Type, on every route
\* and on a path that is no route.
AllAdminReqs ==
  [method : {"GET", "POST"}, path : MuxPaths, accept : {<<>>, TextPlain},
   ctype : {<<>>, AppJSON}, body : {"none", "valid", "invalid"}]

\* An admin request of any kind.
AdminRequestAny == AdminRequestOn(AllAdminReqs)

\* serve is run on a Ready datastore or on an uninitialized one, and nothing
\* but requests reaches the process from outside.
AdminInit ==
  /\ \E s \in {<<"regular", CreatedDB>>, <<"regular", EmptyDB>>} : Idle(s)
  /\ greq = NoReq /\ gresp = NoResp
  /\ amode = "none" /\ areq = NoAReq /\ aresp = NoAResp
  /\ NoStore
  /\ NoProbeCall
  /\ NoLog
  /\ NoRace

AdminNext ==
  \/ StartServeDefault \/ Reap
  \/ ServeProbe \/ ServeOpen \/ ServeCheckState \/ ValidateAdminHost
  \/ BindAdmin \/ VerifyAdmin \/ Launch \/ SelectWake
  \/ ShutdownPublicReturn \/ ShutdownAdminReturn \/ ServeReturn
  \/ PublicListen \/ AdminServe
  \/ ShutdownSignal \/ RestartExit
  \/ PublicRequest \/ AdminRequestAny \/ Finish
  \/ Tick

AdminSpec == AdminInit /\ [][AdminNext]_vars

\* The main path and the goroutines are scheduled when they can run, and time
\* passes; requests are not obliged to happen.
AdminFairSpec ==
  /\ AdminSpec
  /\ WF_vars(MainStep)
  /\ WF_vars(PublicListen) /\ WF_vars(AdminServe)
  /\ WF_vars(ShutdownSignal) /\ WF_vars(RestartExit)
  /\ WF_vars(Tick)

\* --------------------------------------------------- the store on its own
\* One SQLiteStore made by New(dbPath, expected) on any datastore, and the
\* calls of the Store interface on it in any order.
StoreInit ==
  /\ \E s \in InitStores : Idle(s)
  /\ greq = NoReq /\ gresp = NoResp
  /\ amode = "none" /\ areq = NoAReq /\ aresp = NoAResp
  /\ expected \in Versions /\ sres = NoCall /\ released = 0
  /\ NoProbeCall
  /\ NoLog
  /\ NoRace

StoreFrame ==
  UNCHANGED <<procVars, flagVars, state, mode, netVars, sigVars, reqVars,
              guardVars, muxVars, expected, probeVars, logVars, raceVars>>

\* st.Open() on a store that holds no handle.
StoreOpen ==
  /\ handle = "none"
  /\ \E failAt \in FailPoints(file), created \in BOOLEAN :
       LET r == Open(file, failAt, created) IN
       /\ file' = r.file
       /\ db' = IF file = "absent" THEN EmptyDB ELSE db
       /\ handle' = r.handle
       /\ sres' = [NoCall EXCEPT !.op = "Open", !.before = handle, !.err = r.err,
                                 !.applied = r.applied, !.connClosed = r.connClosed]
  /\ UNCHANGED released
  /\ StoreFrame

\* st.Close()
StoreClose ==
  /\ handle' = Close(handle)
  /\ released' = IF handle = "open" /\ handle' # "open" THEN released + 1 ELSE released
  /\ sres' = [NoCall EXCEPT !.op = "Close", !.before = handle]
  /\ UNCHANGED storeVars
  /\ StoreFrame

\* st.InitSchema(version)
StoreInitSchema ==
  /\ \E version \in Versions, failure \in InitFailures :
       LET r == InitSchema(handle, db, version, failure) IN
       /\ db' = r.db
       /\ sres' = [NoCall EXCEPT !.op = "InitSchema", !.arg = version, !.before = handle,
                                 !.err = r.err, !.notOpened = r.notOpened]
  /\ UNCHANGED <<file, handle, released>>
  /\ StoreFrame

\* st.CheckState()
StoreCheckState ==
  /\ \E catalogErr \in BOOLEAN, queryErr \in BOOLEAN :
       LET r == CheckState(handle, db, expected, catalogErr, queryErr) IN
       sres' = [NoCall EXCEPT !.op = "CheckState", !.before = handle, !.err = r.err,
                              !.notOpened = r.notOpened, !.state = r.state]
  /\ UNCHANGED <<storeVars, handle, released>>
  /\ StoreFrame

\* st.GetSchemaVersion()
StoreGetSchemaVersion ==
  /\ \E queryErr \in BOOLEAN :
       LET r == GetSchemaVersion(handle, db, queryErr) IN
       sres' = [NoCall EXCEPT !.op = "GetSchemaVersion", !.before = handle, !.err = r.err,
                              !.notOpened = r.notOpened, !.version = r.version]
  /\ UNCHANGED <<storeVars, handle, released>>
  /\ StoreFrame

\* The version table is dropped from outside (corruption).
DropTable ==
  /\ file = "regular" /\ db.hasTable
  /\ db' = EmptyDB
  /\ sres' = [NoCall EXCEPT !.op = "DropTable", !.before = handle]
  /\ UNCHANGED <<file, handle, released>>
  /\ StoreFrame

\* ---------------------------------------------------- the probe on its own
\* CheckExists(location) on any content of the locations.
ProbeInit ==
  /\ Idle(<<"absent", EmptyDB>>)
  /\ greq = NoReq /\ gresp = NoResp
  /\ amode = "none" /\ areq = NoAReq /\ aresp = NoAResp
  /\ NoStore
  /\ fs \in [Locations -> Nodes] /\ ploc \in Locations /\ pres = NoProbe
  /\ NoLog
  /\ NoRace

ProbeApply ==
  /\ pres = NoProbe /\ ploc # ""
  /\ \E st \in StatOutcomes(fs[ploc]) :
       pres' = [stat |-> st, exists |-> CheckExists(st).exists, err |-> CheckExists(st).err]
  /\ UNCHANGED <<storeVars, procVars, flagVars, bootVars, netVars, sigVars, reqVars,
                 guardVars, muxVars, objVars, fs, ploc, logVars, raceVars>>

ProbeSpec == ProbeInit /\ [][ProbeApply]_vars

\* --------------------------------------------------- the logger on its own
\* A message template is a text of plain words and verbs; the arguments are
\* strings and integers, each written <<type, value>>.
TplToks == {"word", "%s", "%d"}
ArgVals == {<<"string", "count">>, <<"int", "42">>}
Verbs == {"%s", "%d"}

\* fmt: one verb applied to one argument; a verb of the wrong kind for the
\* argument is written as %!verb(type=value).
FormatVerb(verb, arg) ==
  IF (verb = "%s" /\ arg[1] = "string") \/ (verb = "%d" /\ arg[1] = "int")
    THEN <<"value", arg[2]>>
  ELSE <<"%!", verb, arg[1], arg[2]>>

RECURSIVE Sprintf(_, _)
\* fmt.Sprintf(format, args...): each verb takes the next argument, a verb
\* without one is written as %!verb(MISSING), and arguments left over are
\* appended as %!(EXTRA type=value).
Sprintf(format, args) ==
  IF format = <<>>
    THEN [i \in 1..Len(args) |-> <<"%!(EXTRA", args[i][1], args[i][2]>>]
  ELSE IF Head(format) \in Verbs
    THEN IF args = <<>>
           THEN << <<"%!", Head(format), "MISSING">> >> \o Sprintf(Tail(format), args)
         ELSE <<FormatVerb(Head(format), Head(args))>> \o Sprintf(Tail(format), Tail(args))
  ELSE << <<"text", Head(format)>> >> \o Sprintf(Tail(format), args)

\* Mutant: Debug writes the tag of Info.
LevelTag_debugAsInfo(level) ==
  CASE level = "Info" -> "[INFO] "
    [] level = "Warn" -> "[WARN] "
    [] level = "Error" -> "[ERROR] "
    [] level = "Debug" -> "[INFO] "

\* The tag each method of StdLogger puts before the template.
LevelTag(level) ==
  CASE level = "Info" -> "[INFO] "
    [] level = "Warn" -> "[WARN] "
    [] level = "Error" -> "[ERROR] "
    [] level = "Debug" -> "[DEBUG] "

\* NewStdLogger: log.New(os.Stdout, "", log.LstdFlags).
NewStdLogger == [out |-> "stdout", prefix |-> "", flags |-> "LstdFlags"]

\* var Default Logger = NewStdLogger()
Default == NewStdLogger

\* The logger of TestStdLogger: log.New(&buf, "", 0).
BufLogger == [out |-> "buf", prefix |-> "", flags |-> "0"]

\* log.Logger.Printf: one Output call, which writes the header of the flags,
\* the formatted text and a line end.
Printf(logger, format, args) ==
  <<[out |-> logger.out, header |-> logger.flags, text |-> Sprintf(format, args)]>>

\* StdLogger.Info / Warn / Error / Debug: l.logger.Printf(tag+msg, args...).
StdLog(logger, level, msg, args) == Printf(logger, <<LevelTag(level)>> \o msg, args)

Templates == UNION {[1..n -> TplToks] : n \in 0..MaxTplLen}
ArgLists == UNION {[1..n -> ArgVals] : n \in 0..MaxArgs}

LogInit ==
  /\ Idle(<<"absent", EmptyDB>>)
  /\ greq = NoReq /\ gresp = NoResp
  /\ amode = "none" /\ areq = NoAReq /\ aresp = NoAResp
  /\ NoStore
  /\ NoProbeCall
  /\ lcall \in [logger : {Default, BufLogger}, level : {"Info", "Warn", "Error", "Debug"},
                 msg : Templates, args : ArgLists]
  /\ lout = <<>>
  /\ NoRace

\* The call is made.
LogApply ==
  /\ lcall # NoLogCall /\ lout = <<>>
  /\ lout' = StdLog(lcall.logger, lcall.level, lcall.msg, lcall.args)
  /\ UNCHANGED <<storeVars, procVars, flagVars, bootVars, netVars, sigVars, reqVars,
                 guardVars, muxVars, objVars, probeVars, lcall, raceVars>>

LogSpec == LogInit /\ [][LogApply]_vars

\* ------------------------------------------- db create, run twice at once
\* Two invocations of `app db create` run at the same location.
Creators == 1..2

\* One invocation: where runDBCreate is, its st.db, its exit status (-1 while
\* it runs) and exit site, and whether the file it has open was unlinked from the datastore
\* path meanwhile, in which case priv is the content of that file.
NewCreator ==
  [pc |-> "c_probe", handle |-> "none", exit |-> -1, at |-> "none",
   detached |-> FALSE, priv |-> EmptyDB]

RaceInit ==
  /\ \E s \in InitStores : Idle(s)
  /\ greq = NoReq /\ gresp = NoResp
  /\ amode = "none" /\ areq = NoAReq /\ aresp = NoAResp
  /\ NoStore
  /\ NoProbeCall
  /\ NoLog
  /\ racers = [p \in Creators |-> NewCreator]

RaceFrame ==
  UNCHANGED <<procVars, flagVars, bootVars, netVars, sigVars, reqVars,
              guardVars, muxVars, objVars, probeVars, logVars>>

\* os.Remove(dbPath): the path is unlinked; an invocation that has the file
\* open keeps it, away from the path.
Unlinked(rs, d) ==
  [q \in DOMAIN rs |->
     IF rs[q].handle = "open" /\ ~rs[q].detached
       THEN [rs[q] EXCEPT !.detached = TRUE, !.priv = d]
     ELSE rs[q]]

\* runDBCreate of one invocation, the existence check.
RaceProbe(p) ==
  /\ racers[p].pc = "c_probe"
  /\ \E st \in StatOutcomes(file) :
       LET r == CheckExists(st) IN
       racers' = [racers EXCEPT ![p] =
                    IF r.err THEN [@ EXCEPT !.pc = "exited", !.exit = 1, !.at = "probe"]
                    ELSE IF r.exists THEN [@ EXCEPT !.pc = "exited", !.exit = 1, !.at = "exists"]
                    ELSE [@ EXCEPT !.pc = "c_open"]]
  /\ UNCHANGED storeVars
  /\ RaceFrame

\* runDBCreate of one invocation, st.Open(): SQLite creates the file when
\* there is none and opens the one there is.
RaceOpen(p) ==
  /\ racers[p].pc = "c_open"
  /\ \E failAt \in FailPoints(file), created \in BOOLEAN :
       LET r == Open(file, failAt, created) IN
       /\ file' = r.file
       /\ db' = IF file = "absent" THEN EmptyDB ELSE db
       /\ racers' = [racers EXCEPT ![p] =
                       IF r.err THEN [@ EXCEPT !.pc = "exited", !.exit = 1, !.at = "open"]
                       ELSE [@ EXCEPT !.pc = "c_init", !.handle = r.handle]]
  /\ RaceFrame

\* runDBCreate of one invocation, st.InitSchema(schemaVersion) on the file
\* it has open; on failure st.Close(), os.Remove(dbPath) and exit 1.
RaceInitSchema(p) ==
  /\ racers[p].pc = "c_init"
  /\ \E failure \in InitFailures :
       LET me == racers[p]
           r == InitSchema(me.handle, IF me.detached THEN me.priv ELSE db, schemaVersion, failure)
       IN
       \/ /\ r.err
          /\ file' = "absent"
          /\ db' = EmptyDB
          /\ racers' = [Unlinked(racers, db) EXCEPT
                          ![p] = [me EXCEPT !.pc = "exited", !.exit = 1, !.at = "init",
                                            !.handle = Close(me.handle)]]
       \/ /\ ~r.err /\ me.detached
          /\ racers' = [racers EXCEPT ![p] = [me EXCEPT !.pc = "c_done", !.priv = r.db]]
          /\ UNCHANGED storeVars
       \/ /\ ~r.err /\ ~me.detached
          /\ db' = r.db
          /\ racers' = [racers EXCEPT ![p] = [me EXCEPT !.pc = "c_done"]]
          /\ UNCHANGED file
  /\ RaceFrame

\* runDBCreate of one invocation returns: the deferred st.Close(), status 0.
RaceReturn(p) ==
  /\ racers[p].pc = "c_done"
  /\ racers' = [racers EXCEPT ![p] = [@ EXCEPT !.pc = "exited", !.exit = 0, !.at = "done",
                                                !.handle = Close(@)]]
  /\ UNCHANGED storeVars
  /\ RaceFrame

RaceNext ==
  \E p \in Creators : RaceProbe(p) \/ RaceOpen(p) \/ RaceInitSchema(p) \/ RaceReturn(p)

RaceSpec == RaceInit /\ [][RaceNext]_vars

StoreNext ==
  \/ StoreOpen \/ StoreClose \/ StoreInitSchema \/ StoreCheckState
  \/ StoreGetSchemaVersion \/ DropTable

StoreSpec == StoreInit /\ [][StoreNext]_vars
\* ------------------------------------------------------------------ claims
\* C1: in a serve run of either mode, the admin task is started, and admin
\* requests are served, only on a listener that was bound on the configured
\* admin host and whose bound local address passed the post-bind loopback
\* check.
C1_AdminOnlyOnVerifiedLoopback ==
  (cmd = "serve" /\ (task["admin"] # "none" \/ conns["admin"] # {}))
    => /\ verified /\ boundLoopback
       /\ "admin" \in binds /\ adminAddr = adminHost
       /\ mode \in {"normal", "installation"}

\* An admin request is being served in Installation mode on the IPv6 loopback.
C1_Witness ==
  /\ cmd = "serve" /\ conns["admin"] # {} /\ mode = "installation"
  /\ adminHost = HostV6Loop /\ verified

\* C2: with an admin host that does not parse as an IP or is not loopback,
\* serve makes no bind attempt on either socket and, once past the
\* validation, has exited with status 1; 127.0.0.1 and ::1 are not rejected.
C2_BadAdminHostExitsBeforeBind ==
  cmd = "serve" =>
    /\ adminHost \in {HostAny, HostV6Any, HostName, HostBadQuad} =>
         /\ binds = {}
         /\ \A c \in Channels : listener[c] = "none"
         /\ pc \in {"probe", "open", "check", "validate", "exited"}
         /\ pc = "exited" => exitCode = 1
    /\ adminHost \in {Host127, HostV6Loop} => exitAt # "host"

\* serve has exited at the validation of 0.0.0.0, in Installation mode.
C2_Witness ==
  /\ cmd = "serve" /\ pc = "exited" /\ exitAt = "host" /\ exitCode = 1
  /\ adminHost = HostAny /\ mode = "installation"

C4_ModeFollowsState ==
  (cmd = "serve" /\ mode # "none") =>
    /\ state \in {StateReady, StateUninitialized, StateVersionMismatch}
    /\ (mode = "normal") <=> (state = StateReady)
    /\ (mode = "installation") <=> (state \in {StateUninitialized, StateVersionMismatch})
    /\ \A r \in conns["public"] :
         /\ r.path = "/live" => r.status = 200
         /\ r.path = "/ready" => r.status = (IF state = StateReady THEN 200 ELSE 503)
    /\ \A r \in conns["admin"] :
         r.handler = "/admin/status" =>
           r.mode = (IF state = StateReady THEN "running" ELSE "installation")

\* /admin/status has answered "installation" on a version mismatch while
\* /ready answered 503.
C4_Witness ==
  /\ cmd = "serve" /\ state = StateVersionMismatch
  /\ \E r \in conns["admin"] : r.handler = "/admin/status" /\ r.mode = "installation"
  /\ \E r \in conns["public"] : r.path = "/ready" /\ r.status = 503

\* C5 (as claimed): after a fatal startup exit that follows a successful
\* open, the datastore handle has been closed and no listener is open.
C5_HandleClosedOnFatalExit ==
  (cmd = "serve" /\ pc = "exited" /\ exitCode = 1
     /\ exitAt \in {"check", "host", "bind", "verify"})
    => /\ handle # "open"
       /\ \A c \in Channels : listener[c] # "open"

\* C6 (as claimed): the datastore handle is closed only when both servers
\* were shut down and no request is being served on either channel.
C6_CloseAfterRequestsDone ==
  (cmd = "serve" /\ handle = "closed")
    => /\ srvShut = Channels
       /\ \A c \in Channels : conns[c] = {}

\* C7 (as claimed): whichever trigger ended the wait of a serve run that had
\* launched its tasks (an interrupt or termination signal, the exit-after
\* timer, a listener's terminal error), the shutdown sequence was started
\* and Shutdown was called on both servers; only /admin/restart ends such a
\* run without the sequence.
C7_TriggerShutsBothDown ==
  (cmd = "serve" /\ (pc = "complete" \/ exitAt \in {"done", "sigterm"}))
    => srvShut = Channels

\* C8: with --exit-after set, a serve run that has launched its tasks
\* terminates without any signal from outside; a due timer leads to the
\* start of the shutdown sequence (or the process is already gone); and the
\* sequence never lasts longer than the grace window.
C8_ExitAfterTerminates ==
  /\ [](cmd = "serve" => seqElapsed <= shutdownTO)
  /\ (Serving /\ pc = "select" /\ exitAfter > 0) ~> (pc = "exited")
  /\ (Serving /\ timer = 0) ~> (graceLeft # -1 \/ pc = "exited")

\* A run with --exit-after has ended through the sequence, having used the
\* whole grace window.
C8_Witness ==
  /\ cmd = "serve" /\ pc = "exited" /\ exitAt = "done" /\ exitCode = 0
  /\ exitAfter > 0 /\ shutdownTO > 0 /\ seqElapsed = shutdownTO

\* C9 (as claimed): once both Shutdown calls have returned, no request is
\* being served any more on either channel.
C9_NoRequestOutlivesSequence ==
  (cmd = "serve" /\ (pc = "complete" \/ exitAt = "done"))
    => \A c \in Channels : conns[c] = {}

C11_ContentTypeRule ==
  gresp # NoResp =>
    LET a == greq.accept
        ct == greq.ctype
        passedAccept ==
          a = <<>> \/ \E i \in 1..(Len(a) - 1) : a[i] = "application/" /\ a[i + 1] = "json"
        jsonBody == Len(ct) >= 2 /\ ct[1] = "application/" /\ ct[2] = "json"
    IN /\ (gresp.status = 415) <=>
            (passedAccept /\ greq.method \in {"POST", "PUT"} /\ ~jsonBody)
       /\ (gresp.status = 415) => (gresp.error = "unsupported_media_type" /\ ~gresp.next)
       /\ greq.method \in {"GET", "HEAD", "OPTIONS"} => gresp.status # 415

\* C12: in both modes every handler registered on the admin mux is wrapped
\* in the guard, and a handler has run only for a request the guard let
\* through; a request the guard rejects gets the guard's 406 or 415.
C12_EveryAdminRouteGuarded ==
  /\ \A m \in {"normal", "installation"} : \A h \in AdminHandlers(m) : h.guarded
  /\ aresp # NoAResp =>
       /\ aresp.handler # "" => (jsonOnly(areq).next /\ aresp.handler \in AdminRoutes(amode))
       /\ (areq.path \in AdminRoutes(amode) /\ ~jsonOnly(areq).next) =>
            (aresp.handler = "" /\ aresp.status \in {406, 415})

\* In Normal mode a POST to /admin/restart with a text Accept header was
\* answered 406 and the handler did not run.
C12_Witness ==
  /\ amode = "normal" /\ areq.path = "/admin/restart" /\ areq.method = "POST"
  /\ areq.accept = TextPlain
  /\ aresp.status = 406 /\ aresp.handler = ""

\* C13 (as claimed): every non-success answer on the admin channel carries
\* the standard JSON error body, with an error code and a message.
C13_FailuresCarryErrorBody ==
  (aresp # NoAResp /\ aresp.status >= 400) =>
    (aresp.body = "error_json" /\ aresp.error # "" /\ aresp.message)

\* C14: round trip of the schema state.  InitSchema(V) on a fresh datastore
\* leaves the version table with the one row V; on a datastore holding that
\* one row, CheckState answers Ready when the store expects V and
\* VersionMismatch when it expects another version, and GetSchemaVersion
\* answers V; once the table is dropped CheckState answers Uninitialized.
C14_SchemaRoundTrip ==
  /\ [][(sres'.op = "InitSchema" /\ ~sres'.err /\ db = EmptyDB)
          => db' = [hasTable |-> TRUE, rows |-> <<sres'.arg>>]]_vars
  /\ []((sres.op = "CheckState" /\ ~sres.err /\ db.hasTable /\ Len(db.rows) = 1)
          => sres.state = (IF db.rows[1] = expected THEN StateReady
                           ELSE StateVersionMismatch))
  /\ []((sres.op = "GetSchemaVersion" /\ ~sres.err /\ db.hasTable /\ Len(db.rows) = 1)
          => sres.version = db.rows[1])
  /\ []((sres.op = "CheckState" /\ ~sres.err /\ ~db.hasTable)
          => sres.state = StateUninitialized)
  /\ [][(sres'.op = "DropTable") => ~db'.hasTable]_vars

\* A store expecting another version than the one recorded by InitSchema has
\* answered VersionMismatch.
C14_Witness ==
  /\ sres.op = "CheckState" /\ ~sres.err /\ sres.state = StateVersionMismatch
  /\ db.hasTable /\ Len(db.rows) = 1 /\ db.rows[1] # expected

\* C15 (as claimed): on a datastore whose version table holds no row,
\* CheckState answers Uninitialized, whatever version the store expects.
C15_EmptyTableUninitialized ==
  (sres.op = "CheckState" /\ ~sres.err /\ db.hasTable /\ db.rows = <<>>)
    => sres.state = StateUninitialized

\* C16: a call of InitSchema(version) either returns no error and has added
\* the version table (if it was not there) and exactly the one row version,
\* or returns an error and has left tables and rows as they were; it never
\* touches the file node.
C16_InitSchemaAtomic ==
  [][(sres'.op = "InitSchema") =>
       /\ file' = file
       /\ \/ /\ ~sres'.err
             /\ db' = [hasTable |-> TRUE, rows |-> Append(db.rows, sres'.arg)]
             /\ \A i \in 1..Len(db.rows) : db.rows[i] # sres'.arg
          \/ /\ sres'.err
             /\ db' = db]_vars

\* InitSchema has failed at the insert of a version that was already
\* recorded, on an open store.
C16_Witness ==
  /\ sres.op = "InitSchema" /\ sres.err /\ sres.before = "open"
  /\ db.hasTable /\ \E i \in 1..Len(db.rows) : db.rows[i] = sres.arg

\* C17: db create at a location where a datastore file exists goes from the
\* existence check straight to a non-zero exit, with no connection opened
\* and the file and its content untouched, whatever its schema state; a db
\* create that exits with status 0 leaves a regular file whose version table
\* holds exactly the row of the binary's schema version, which CheckState
\* reports as Ready.
C17_CreateRefusesExisting ==
  /\ []((cmd = "create" /\ exitAt = "exists")
          => (exitCode = 1 /\ handle = "none" /\ file = "regular"))
  /\ [][(cmd = "create" /\ pc = "c_probe" /\ file = "regular")
          => /\ pc' = "exited" /\ exitCode' # 0 /\ handle' = "none"
             /\ file' = file /\ db' = db]_vars
  /\ []((cmd = "create" /\ pc = "exited" /\ exitCode = 0)
          => /\ file = "regular"
             /\ db = [hasTable |-> TRUE, rows |-> <<schemaVersion>>]
             /\ CheckState("open", db, schemaVersion, FALSE, FALSE).state = StateReady)

\* db create has refused a datastore that records another schema version.
C17_Witness ==
  /\ cmd = "create" /\ pc = "exited" /\ exitAt = "exists" /\ exitCode = 1
  /\ db.hasTable /\ db.rows # <<>> /\ db.rows[1] # schemaVersion

\* C18 (as claimed): a db create that found no datastore and failed while
\* opening or initializing it has left no file at the location.
C18_FailedCreateLeavesNoFile ==
  (cmd = "create" /\ pc = "exited" /\ exitCode = 1 /\ exitAt \in {"open", "init"})
    => file = "absent"

\* C19: Open executes the pragmas journal_mode=WAL, synchronous=NORMAL,
\* foreign_keys=ON, busy_timeout=5000 in that order up to the first failure;
\* the store holds a handle only after an Open in which all four succeeded;
\* when a pragma fails the connection was closed before the return and the
\* store holds no handle, so that Close is a no-op and CheckState,
\* InitSchema and GetSchemaVersion report that the database is not opened.
C19_OpenPragmas ==
  /\ [](Pragmas = <<"journal_mode=WAL", "synchronous=NORMAL", "foreign_keys=ON",
                    "busy_timeout=5000">>)
  /\ [](sres.op = "Open" =>
          /\ \E n \in 0..Len(Pragmas) : sres.applied = SubSeq(Pragmas, 1, n)
          /\ ~sres.err => (sres.applied = Pragmas /\ handle = "open" /\ ~sres.connClosed)
          /\ sres.err => handle = "none"
          /\ (sres.err /\ sres.applied # <<>>) => sres.connClosed)
  /\ [][(handle = "none" /\ handle' # "none")
          => (sres'.op = "Open" /\ ~sres'.err /\ sres'.applied = Pragmas)]_vars
  /\ []((sres.before = "none" /\ sres.op \in {"CheckState", "InitSchema", "GetSchemaVersion"})
          => (sres.err /\ sres.notOpened))
  /\ []((sres.before = "none" /\ sres.op = "Close") => (handle = "none" /\ ~sres.err))

\* Open has failed at the third pragma: the connection was closed and the
\* store holds no handle.
C19_Witness ==
  /\ sres.op = "Open" /\ sres.err /\ Len(sres.applied) = 3 /\ sres.connClosed
  /\ handle = "none"

\* C20: Close never panics; on a store that holds no handle (never opened,
\* or Open failed) it changes nothing and returns no error; on an opened
\* store the first Close releases the connection and a second one releases
\* nothing, so the connection is released at most once.
C20_CloseSafe ==
  /\ [](handle \in {"none", "open", "closed"})
  /\ [](released <= 1)
  /\ [][(sres'.op = "Close") =>
          /\ ~sres'.err
          /\ handle = "none" => (handle' = "none" /\ released' = released)
          /\ handle = "open" => (handle' = "closed" /\ released' = released + 1)
          /\ handle = "closed" => (handle' = "closed" /\ released' = released)]_vars

\* Close has been called a second time on an opened store.
C20_Witness ==
  /\ sres.op = "Close" /\ sres.before = "closed" /\ handle = "closed" /\ released = 1

\* C21: CheckExists leaves every location as it was and returns one of three
\* answers: (true, no error) for a regular file at the datastore path of the
\* location, (false, no error) when os.Stat finds nothing there, and (false,
\* error) for a directory or for a stat failure other than not-exist; an
\* I/O failure is never answered as absence.
C21_ProbeOutcomes ==
  /\ [][fs' = fs]_vars
  /\ [](pres # NoProbe =>
          /\ <<pres.exists, pres.err>> \in {<<TRUE, FALSE>>, <<FALSE, FALSE>>, <<FALSE, TRUE>>}
          /\ pres.stat = "file" => (fs[ploc] = "regular" /\ pres.exists /\ ~pres.err)
          /\ pres.stat = "notexist" => (fs[ploc] = "absent" /\ ~pres.exists /\ ~pres.err)
          /\ pres.stat \in {"dir", "ioerr"} => (~pres.exists /\ pres.err)
          /\ (~pres.exists /\ ~pres.err) => pres.stat = "notexist")

\* The stat of a regular file failed with an I/O error and the probe
\* answered (false, error).
C21_Witness ==
  /\ pres.stat = "ioerr" /\ fs[ploc] = "regular" /\ ~pres.exists /\ pres.err

\* C22 (as claimed): for a node that is present but not a regular file (a
\* directory, a device, a socket, a named pipe) the probe returns an error
\* and not Exists=true.
C22_NonRegularIsError ==
  (pres # NoProbe /\ fs[ploc] \in {"dir", "special"}) => (pres.err /\ ~pres.exists)

\* C26: each of Info, Warn, Error and Debug writes exactly one line, on the
\* logger's output, made of the logger's header, the tag of the level
\* ("[INFO] ", "[WARN] ", "[ERROR] ", "[DEBUG] ") and then the template
\* formatted with the arguments; and the default logger is not nil.
C26_LeveledLine ==
  /\ Default # NilLogger
  /\ lout # <<>> =>
       /\ Len(lout) = 1
       /\ lout[1].out = lcall.logger.out
       /\ lout[1].header = lcall.logger.flags
       /\ lout[1].text # <<>>
       /\ Head(lout[1].text) =
            (CASE lcall.level = "Info" -> <<"text", "[INFO] ">>
               [] lcall.level = "Warn" -> <<"text", "[WARN] ">>
               [] lcall.level = "Error" -> <<"text", "[ERROR] ">>
               [] lcall.level = "Debug" -> <<"text", "[DEBUG] ">>)
       /\ Tail(lout[1].text) = Sprintf(lcall.msg, lcall.args)

\* Debug was called on the default logger with a template of two verbs and
\* its two arguments.
C26_Witness ==
  /\ lcall.level = "Debug" /\ lcall.logger = Default
  /\ lcall.msg = <<"word", "%s", "%d">>
  /\ lcall.args = << <<"string", "count">>, <<"int", "42">> >>
  /\ Len(lout) = 1
  /\ lout[1].text = << <<"text", "[DEBUG] ">>, <<"text", "word">>,
                       <<"value", "count">>, <<"value", "42">> >>

\* C27 (as claimed): while a request is being served on either channel, both
\* sockets have been bound successfully in this run.
C27_ServeAfterBothBound ==
  (Serving /\ \E c \in Channels : conns[c] # {})
    => (binds = Channels /\ \A c \in Channels : listener[c] # "none")

\* C28 (as claimed): once the shutdown sequence has begun, neither listener
\* accepts a connection any more.
C28_NoAcceptDuringShutdown ==
  (Serving /\ pc \in {"waitPublic", "waitAdmin", "complete"})
    => \A c \in Channels : ~Accepting(c)

\* C29: both Shutdown calls run against the one deadline set when the
\* sequence starts: the time left for the second is what the first has not
\* used, and the sequence never lasts longer than the grace window.
C29_OneGraceWindow ==
  cmd = "serve" =>
    /\ seqElapsed <= shutdownTO
    /\ graceLeft # -1 => (graceLeft >= 0 /\ graceLeft + seqElapsed = shutdownTO)
    /\ (pc \in {"waitPublic", "waitAdmin", "complete"}) => graceLeft # -1

\* The sequence is complete after a whole grace window, with a request still
\* in flight on each channel.
C29_Witness ==
  /\ cmd = "serve" /\ pc = "complete" /\ shutdownTO > 0 /\ seqElapsed = shutdownTO
  /\ conns["public"] # {} /\ conns["admin"] # {}

\* C30: the startup steps of serve follow one another in the order probe,
\* open, state check and mode selection, admin-host validation, admin bind,
\* post-bind check, launch; the state check runs with an open handle only,
\* a bind is attempted only with the mode selected, and a run that exited at
\* a step has done nothing of the later steps.
C30_StartupOrder ==
  /\ [](cmd = "serve" =>
          /\ pc = "check" => handle = "open"
          /\ state # "none" => handle # "none"
          /\ mode # "none" => state # "none"
          /\ binds # {} => mode # "none"
          /\ exitAt \in {"probe", "missing", "open"} =>
               (handle = "none" /\ state = "none" /\ mode = "none" /\ binds = {})
          /\ exitAt = "check" => (state = "none" /\ mode = "none" /\ binds = {})
          /\ exitAt = "host" => binds = {}
          /\ exitAt \in {"bind", "verify"} => (binds = {"admin"} /\ ~verified))
  /\ [][(cmd = "serve" /\ pc' # pc) =>
          <<pc, pc'>> \in
            {<<"probe", "open">>, <<"open", "check">>, <<"check", "validate">>,
             <<"validate", "bind">>, <<"bind", "verify">>, <<"verify", "launch">>,
             <<"launch", "select">>, <<"select", "waitPublic">>,
             <<"waitPublic", "waitAdmin">>, <<"waitAdmin", "complete">>,
             <<"exited", "idle">>}
            \cup {<<p, "exited">> : p \in {"probe", "open", "check", "validate", "bind",
                                           "verify", "select", "waitPublic", "waitAdmin",
                                           "complete"}}]_vars

\* serve has exited at the state check: opened, but no mode and no bind.
C30_Witness ==
  /\ cmd = "serve" /\ pc = "exited" /\ exitAt = "check" /\ handle = "open"
  /\ mode = "none" /\ binds = {}

\* The state a check of the datastore would give now.
StateNow == CheckState("open", db, schemaVersion, FALSE, FALSE).state

\* C23: once serve has its mode, the mode and the store state stay what they
\* are for as long as the process lives and the state check is not run
\* again, whatever happens to the datastore; /ready and the mode of
\* /admin/status answer from the mode chosen at startup.
C23_ModeFixedAtStartup ==
  /\ [](cmd = "serve" =>
          /\ \A r \in conns["public"] :
               r.handler = "/ready" => r.status = IF mode = "normal" THEN 200 ELSE 503
          /\ \A r \in conns["admin"] :
               r.handler = "/admin/status" => r.mode = StatusMode(mode))
  /\ [][(cmd = "serve" /\ mode # "none" /\ cmd' = "serve") =>
          (mode' = mode /\ state' = state /\ pc' # "check")]_vars

\* serve runs in Normal mode over a datastore that is no longer Ready, and
\* has answered /ready with 200 and /admin/status with "running".
C23_Witness ==
  /\ Serving /\ mode = "normal" /\ state = StateReady /\ StateNow # StateReady
  /\ \E r \in conns["public"] : r.handler = "/ready" /\ r.status = 200
  /\ \E r \in conns["admin"] : r.handler = "/admin/status" /\ r.mode = "running"

\* C24: db create that exits 0 leaves a datastore whose state is Ready for
\* this binary; a serve whose state check passes on it selects Normal mode;
\* and in Normal mode /live and /ready answer 200, /version carries
\* schemaVersion and /admin/status reports "running".
C24_CreateThenServeNormal ==
  /\ []((cmd = "create" /\ pc = "exited" /\ exitCode = 0) =>
          (file = "regular" /\ db = CreatedDB /\ StateNow = StateReady))
  /\ [][(cmd = "serve" /\ pc = "check" /\ db = CreatedDB /\ pc' = "validate") =>
          (state' = StateReady /\ mode' = "normal")]_vars
  /\ []((cmd = "serve" /\ mode = "normal") =>
          /\ state = StateReady
          /\ \A r \in conns["public"] :
               /\ r.handler \in {"/live", "/ready"} => r.status = 200
               /\ r.handler = "/version" => (r.status = 200 /\ r.schema = schemaVersion)
          /\ \A r \in conns["admin"] :
               r.handler = "/admin/status" => (r.status = 200 /\ r.mode = "running"))

\* serve runs in Normal mode over the datastore db create made, with
\* /version answered on the public listener and /admin/status on the admin one.
C24_Witness ==
  /\ Serving /\ db = CreatedDB /\ state = StateReady /\ mode = "normal"
  /\ \E r \in conns["public"] : r.handler = "/version" /\ r.schema = schemaVersion
  /\ \E r \in conns["admin"] : r.handler = "/admin/status" /\ r.mode = "running"

\* C25: no request on the public listener is answered by an admin route
\* handler, and no such request starts the shutdown or the restart goroutine
\* or moves the main path.
C25_PublicNeverAdmin ==
  /\ [](\A r \in conns["public"] : r.handler \notin AdminRoutes("normal"))
  /\ [][(Serving /\ conns'["public"] \ conns["public"] # {}) =>
          (pending' = pending /\ pc' = pc /\ UNCHANGED sigVars)]_vars

\* /admin/shutdown asked on the public listener in Normal mode: the
\* catch-all handler answered and nothing is pending.
C25_Witness ==
  /\ Serving /\ mode = "normal" /\ pending = {}
  /\ \E r \in conns["public"] : r.path = "/admin/shutdown" /\ r.handler = "/"

\* C31: a failed admin bind and a failed post-bind check end serve with a
\* non-zero status before any task was started or any request served, after
\* the one bind attempt on the admin host asked for and none on the public
\* port; after the failed post-bind check the admin listener is closed.
C31_BindFailureFatal ==
  (cmd = "serve" /\ exitAt \in {"bind", "verify"}) =>
    /\ pc = "exited" /\ exitCode = 1
    /\ \A c \in Channels : conns[c] = {} /\ task[c] = "none"
    /\ pending = {} /\ srvShut = {}
    /\ binds = {"admin"} /\ adminAddr = adminHost
    /\ listener["public"] = "none"
    /\ exitAt = "bind" => listener["admin"] = "none"
    /\ exitAt = "verify" => (listener["admin"] = "closed" /\ ~boundLoopback)

\* serve has exited at the post-bind check, with the admin listener closed.
C31_Witness ==
  /\ cmd = "serve" /\ pc = "exited" /\ exitAt = "verify"
  /\ listener["admin"] = "closed" /\ ~boundLoopback

\* C32: a request on the admin channel that is answered with a guard
\* rejection or with 400 changes nothing but the set of requests being
\* served: nothing is sent to errCh, the signal context is not cancelled, no
\* shutdown or restart is started, the main path does not move, and the
\* listeners, the tasks and the mode stay as they are.
C32_RequestFailureContained ==
  [][(Serving /\ \E r \in conns'["admin"] \ conns["admin"] : r.status \in {400, 406, 415})
       => /\ pending' = pending
          /\ conns'["public"] = conns["public"]
          /\ UNCHANGED <<storeVars, procVars, flagVars, bootVars, netVars, sigVars>>]_vars

\* A request was answered 400 and the admin listener still accepts, in the
\* select, with nothing pending.
C32_Witness ==
  /\ Serving /\ pc = "select" /\ Accepting("admin") /\ pending = {}
  /\ ~ctxDone /\ errCh = <<>>
  /\ \E r \in conns["admin"] : r.status = 400 /\ r.error = "invalid_request"

\* C33: /admin/shutdown answers 200 with its JSON status and only starts its
\* goroutine, so nothing of the process has moved when the answer is
\* written; the goroutine then does what an interrupt does, it cancels the
\* signal context and nothing else; and the sequence that follows ends
\* within the grace window with both servers shut down, the handle being
\* open throughout the sequence and closed at the exit.
C33_AdminShutdownGraceful ==
  /\ [](cmd = "serve" =>
          /\ \A r \in conns["admin"] :
               r.handler = "/admin/shutdown" => (r.status = 200 /\ r.body = "json")
          /\ pc \in {"waitPublic", "waitAdmin", "complete"} => handle = "open"
          /\ exitAt = "done" =>
               (exitCode = 0 /\ srvShut = Channels /\ handle = "closed"
                /\ seqElapsed <= shutdownTO))
  /\ [][(Serving /\ \E r \in conns'["admin"] \ conns["admin"] : r.handler = "/admin/shutdown")
          => ("shutdown" \in pending' /\ UNCHANGED <<procVars, bootVars, netVars, sigVars>>)]_vars
  /\ [][(Serving /\ "shutdown" \in pending /\ "shutdown" \notin pending' /\ pc' # "exited")
          => (ctxDone' /\ UNCHANGED <<procVars, bootVars, netVars, errCh, timer, graceLeft,
                                      seqElapsed, conns>>)]_vars

\* The sequence started by /admin/shutdown is complete: the public listener
\* was bound and is closed, both servers are shut down and the handle is
\* still to be closed.
C33_Witness ==
  /\ cmd = "serve" /\ pc = "complete" /\ ctxDone /\ errCh = <<>>
  /\ srvShut = Channels /\ listener["public"] = "closed" /\ listener["admin"] = "closed"
  /\ handle = "open" /\ pending = {}

\* C34 (as claimed): when both invocations have finished and one of them
\* has reported success, the datastore is there and Ready.
C34_WinnerKeepsDatastore ==
  ((\A p \in Creators : racers[p].pc = "exited") /\ (\E p \in Creators : racers[p].exit = 0))
    => (file = "regular" /\ StateNow = StateReady)

\* C35: the error channel never holds more than it has room for and no
\* listener task is ever blocked in its send, whether or not the main path
\* still receives.
C35_ReportNeverBlocks ==
  cmd = "serve" =>
    /\ Len(errCh) <= ErrChCap
    /\ \A c \in Channels : task[c] # "blocked"

\* Both tasks have reported and finished, and the main path, woken by the
\* signal, has received neither error.
C35_Witness ==
  /\ Serving /\ pc \in {"waitPublic", "waitAdmin", "complete"} /\ ctxDone
  /\ Len(errCh) = 2
  /\ \A c \in Channels : task[c] = "done"

C37_SequenceExitsZero ==
  /\ []((cmd = "serve" /\ pc = "exited" /\ exitAt # "sigterm") =>
          /\ exitCode \in {0, 1}
          /\ exitCode # 0 <=>
               exitAt \in {"probe", "missing", "open", "check", "host", "bind", "verify"}
          /\ exitCode # 0 => (srvShut = {} /\ "public" \notin binds /\ ~verified))
  /\ [][(cmd = "serve" /\ pc \in {"waitPublic", "waitAdmin", "complete"}
         /\ pc' = "exited" /\ exitAt' # "sigterm") => exitCode' = 0]_vars

\* The public listener could not be bound, the sequence ran and serve has
\* exited with status 0.
C37_Witness ==
  /\ cmd = "serve" /\ pc = "exited" /\ exitAt = "done" /\ exitCode = 0
  /\ "public" \in binds /\ listener["public"] = "none" /\ srvShut = Channels

\* C38: the admin mux of Installation mode has the one route /admin/status;
\* a request for /admin/echo, /admin/shutdown or /admin/restart is answered
\* 404 by the mux and reaches no handler, so in that mode no shutdown or
\* restart goroutine is ever pending and the restart exit is never taken.
C38_InstallationStatusOnly ==
  /\ AdminRoutes("installation") = {"/admin/status"}
  /\ (cmd = "serve" /\ mode = "installation") =>
       /\ pending = {}
       /\ exitAt # "restart"
       /\ \A r \in conns["admin"] :
            /\ r.handler \in {"", "/admin/status"}
            /\ r.path \in {"/admin/echo", "/admin/shutdown", "/admin/restart"} =>
                 (r.status = 404 /\ r.handler = "")

\* In Installation mode /admin/shutdown was asked for and answered 404, and
\* serve goes on.
C38_Witness ==
  /\ Serving /\ mode = "installation" /\ pc = "select" /\ ~ctxDone
  /\ \E r \in conns["admin"] : r.path = "/admin/shutdown" /\ r.status = 404

\* C39: CheckState returns an error with Missing (store not opened) or with
\* Uninitialized (catalog query or version query failed), never with Ready;
\* and serve takes a mode only from a check that returned no error: when the
\* check fails it exits 1 with no state, no mode and no bind.
C39_CheckStateErrors ==
  /\ [](\A h \in {"none", "open", "closed"},
           d \in {EmptyDB, [hasTable |-> TRUE, rows |-> <<>>]}
                  \cup {[hasTable |-> TRUE, rows |-> <<v>>] : v \in Versions},
           e \in Versions, ce \in BOOLEAN, qe \in BOOLEAN :
          LET r == CheckState(h, d, e, ce, qe) IN
          /\ r.err => r.state \in {StateMissing, StateUninitialized}
          /\ h = "none" => (r.state = StateMissing /\ r.err)
          /\ (h # "none" /\ ce) => (r.state = StateUninitialized /\ r.err)
          /\ (h = "open" /\ ~ce /\ d.hasTable /\ qe) => (r.state = StateUninitialized /\ r.err)
          /\ r.state = StateReady => (~r.err /\ h = "open" /\ d.rows = <<e>>))
  /\ [](cmd = "serve" =>
          /\ exitAt = "check" => (exitCode = 1 /\ state = "none" /\ mode = "none" /\ binds = {})
          /\ mode # "none" => state \in {StateReady, StateUninitialized, StateVersionMismatch})
  /\ [][(cmd = "serve" /\ pc = "check" /\ mode' # "none") =>
          (state' = StateNow /\ mode' = SelectMode(state'))]_vars

\* The state check failed on a datastore that is Ready, and serve has exited
\* 1 without a mode.
C39_Witness ==
  /\ cmd = "serve" /\ pc = "exited" /\ exitAt = "check" /\ exitCode = 1
  /\ StateNow = StateReady /\ mode = "none"

====
